---- MODULE Spec2Model ----
(***************************************************************************)
(* Recurrence generation and notification queue of the Reminder app        *)
(* (src/src/scheduler.ts).                                                  *)
(*                                                                          *)
(* A Date is modelled by its time value, counted in whole seconds of local  *)
(* wall-clock time since local midnight of 1 January of Epoch.year (a      *)
(* Monday).  The source counts milliseconds; every factor 60 * 1000 of the  *)
(* source is therefore the factor Minute here, and a sub-minute part of a   *)
(* Date is a number of seconds in 1..59.  The local time zone has a fixed   *)
(* offset (no daylight-saving transitions).                                 *)
(***************************************************************************)
EXTENDS Integers, Sequences, FiniteSets, TLC

VARIABLES
    input,          \* QueueInput of the call: now, schedules, maxCount?, horizonHours?
    pc,             \* "ready" | "returned" | "repeated"
    dates,          \* per schedule, the local `dates` of buildNotificationQueue
    queue,          \* the value returned by buildNotificationQueue(input)
    again,          \* the value returned by a second call with the same input
    DEFAULT_DAYS,   \* the module-level array shared by every call
    calls,          \* number of calls of buildNotificationQueue made so far
    swept           \* per schedule, whether the call ran generateFallbackDates for it

\* The app component (src/unnamed/part_000)
VARIABLES
    schedules,              \* the `schedules` state: id -> Schedule
    quietHours,             \* the `quietHours` state: its `enabled` flag
    authorizationStatus,    \* "authorized" | "denied" | "unknown"
    previousSchedulesRef,   \* previousSchedulesRef.current
    rescheduleTimers,       \* rescheduleTimers.current: id -> handle of a timeout
    timeouts,               \* the timeouts that were set and have neither fired nor been cleared
    inFlight,               \* the calls of async handlers that are suspended at an await
    presses,                \* number of handlers that the user has invoked so far
    registered,             \* id -> the interval of the notifications registered for it
    stoppedIds,             \* history: ids whose onStopSchedule completed, not started since
    lastEdit,               \* history: id -> the schedule as its last qualifying edit left it
    burst,                  \* history: id -> qualifying edits since a timer of id fired or was cleared
    debounced,              \* history: id -> what the last fired timer of id called and saw
    afterClear,             \* history: timeouts of the id left by the last clearRescheduleTimer of a handler
    startKept               \* history: an onStartSchedule returned with the timer pending at its call still pending

engineVars == <<input, pc, dates, queue, again, DEFAULT_DAYS, calls, swept>>

appVars ==
    <<schedules, quietHours, authorizationStatus, previousSchedulesRef, rescheduleTimers,
      timeouts, inFlight, presses, registered, stoppedIds, lastEdit, burst, debounced,
      afterClear, startKept>>

vars == <<engineVars, appVars>>

----------------------------------------------------------------------------
(* Program constants *)

MIN_INTERVAL == 5
MAX_INTERVAL == 180
DEFAULT_DAY_OF_MONTH == 1
DefaultMaxCount == 50
DefaultHorizonHours == 24
Minute == 60
MinutesPerDay == 24 * 60
Hour == 60 * Minute
Day == 24 * Hour

(* Bounds of the model *)

MaxCountBound == 3      \* explicit maxCount ranges over 0..MaxCountBound
MaxSchedules == 2       \* longest list of schedules passed to the queue builder
MaxCalls == 2           \* calls made before the repeated call
LoopDepth == 11         \* a while loop is followed for up to 2^LoopDepth rounds

Epoch == [year |-> 2018, weekday |-> 1]   \* 2018-01-01 is a Monday (getDay() = 1)

Min(a, b) == IF a < b THEN a ELSE b
Max(a, b) == IF a > b THEN a ELSE b

----------------------------------------------------------------------------
(* The Date object: calendar arithmetic on local time *)

IsLeapYear(y) == (y % 4 = 0 /\ y % 100 # 0) \/ y % 400 = 0

MonthLength(y, m) ==
    IF m = 1 THEN (IF IsLeapYear(y) THEN 29 ELSE 28)
    ELSE IF m \in {3, 5, 8, 10} THEN 30 ELSE 31

YearLength(y) == IF IsLeapYear(y) THEN 366 ELSE 365

RECURSIVE DaysBeforeYear(_)
DaysBeforeYear(y) ==
    IF y <= Epoch.year THEN 0 ELSE DaysBeforeYear(y - 1) + YearLength(y - 1)

RECURSIVE DaysBeforeMonth(_, _)
DaysBeforeMonth(y, m) ==
    IF m <= 0 THEN 0 ELSE DaysBeforeMonth(y, m - 1) + MonthLength(y, m - 1)

\* new Date(year, monthIndex, day): local midnight; a monthIndex of 12 or more
\* and a day outside the month roll over, as the Date constructor does.
NewDate(year, monthIndex, day) ==
    LET y == year + (monthIndex \div 12)
        m == monthIndex % 12
    IN  (DaysBeforeYear(y) + DaysBeforeMonth(y, m) + (day - 1)) * Day

DayNumber(date) == date \div Day

RECURSIVE YearFrom(_, _)
YearFrom(y, d) == IF d < YearLength(y) THEN y ELSE YearFrom(y + 1, d - YearLength(y))

getFullYear(date) == YearFrom(Epoch.year, DayNumber(date))

RECURSIVE MonthFrom(_, _, _)
MonthFrom(y, m, d) ==
    IF d < MonthLength(y, m) THEN m ELSE MonthFrom(y, m + 1, d - MonthLength(y, m))

DayOfYear(date) == DayNumber(date) - DaysBeforeYear(getFullYear(date))

getMonth(date) == MonthFrom(getFullYear(date), 0, DayOfYear(date))

getDate(date) ==
    DayOfYear(date) - DaysBeforeMonth(getFullYear(date), getMonth(date)) + 1

\* 0 = Sunday ... 6 = Saturday
getDay(date) == (Epoch.weekday + DayNumber(date)) % 7

getHours(date) == (date % Day) \div Hour
getMinutes(date) == (date % Hour) \div Minute
getSeconds(date) == date % Minute

----------------------------------------------------------------------------
(* Helpers of scheduler.ts *)

\* JavaScript's % takes the sign of the dividend.
JsRem(a, b) == IF a >= 0 THEN a % b ELSE 0 - ((0 - a) % b)

\* mutation: a value outside [0,1440) is moved to the nearer end of the range
normalizeMinutesClamped(value) == Min(MinutesPerDay - 1, Max(0, value))

normalizeMinutes(value) ==
    LET normalized == JsRem(value, MinutesPerDay)
    IN  IF normalized < 0 THEN normalized + MinutesPerDay ELSE normalized

clamp(value, min, max) == Min(max, Max(min, value))

startOfDay(date) == date - (date % Day)

dateAtMinutes(date, minutes) == startOfDay(date) + minutes * Minute

addMinutes(date, minutes) == date + minutes * Minute

minutesSinceMidnight(date) == getHours(date) * 60 + getMinutes(date)

\* setDate(getDate() + days): the same local time, `days` calendar days later
addDays(date, days) == date + days * Day

\* setMonth(getMonth() + months): same day of month and time, rolling over
addMonths(date, months) ==
    NewDate(getFullYear(date), getMonth(date) + months, getDate(date)) + (date % Day)

getDaysInMonth(year, monthIndex) == getDate(NewDate(year, monthIndex + 1, 0))

\* mutation: a mask of another length is cut or filled up with inactive days
normalizeDaysOfWeekPadded(holder) ==
    IF "daysOfWeek" \notin DOMAIN holder
    THEN DEFAULT_DAYS
    ELSE [i \in 1..7 |-> i <= Len(holder.daysOfWeek) /\ holder.daysOfWeek[i]]

normalizeDaysOfWeek(holder) ==
    IF "daysOfWeek" \notin DOMAIN holder \/ Len(holder.daysOfWeek) # 7
    THEN DEFAULT_DAYS
    ELSE [i \in 1..7 |-> holder.daysOfWeek[i]]

\* mutation: the mask is read with getDay() as index (0 = Sunday)
isDayActiveSundayFirst(date, daysOfWeek) == daysOfWeek[getDay(date) + 1]

\* daysOfWeek[index] of the source is element index + 1 of the sequence
isDayActive(date, daysOfWeek) ==
    LET day == getDay(date)
        index == IF day = 0 THEN 6 ELSE day - 1
    IN  daysOfWeek[index + 1]

\* mutation: the test for an active day is dropped
someDayActiveAssumed(activeDays) == TRUE

someDayActive(activeDays) == \E i \in 1..Len(activeDays) : activeDays[i]

\* mutation: a day outside [1,31] is replaced by the default day
normalizeDayOfMonthDefaulting(holder) ==
    IF "dayOfMonth" \notin DOMAIN holder THEN DEFAULT_DAY_OF_MONTH
    ELSE IF holder.dayOfMonth < 1 \/ holder.dayOfMonth > 31 THEN DEFAULT_DAY_OF_MONTH
    ELSE holder.dayOfMonth

\* mutation: a day that is set is used as it is
normalizeDayOfMonthUnbounded(holder) ==
    IF "dayOfMonth" \notin DOMAIN holder THEN DEFAULT_DAY_OF_MONTH
    ELSE holder.dayOfMonth

normalizeDayOfMonth(holder) ==
    IF "dayOfMonth" \notin DOMAIN holder THEN DEFAULT_DAY_OF_MONTH
    ELSE LET normalized == holder.dayOfMonth
         IN  IF normalized < 1 THEN 1
             ELSE IF normalized > 31 THEN 31
             ELSE normalized

isWithinWindow(date, startMinutes, endMinutes, spansMidnight) ==
    LET timeMinutes == minutesSinceMidnight(date)
    IN  IF ~spansMidnight
        THEN timeMinutes >= startMinutes /\ timeMinutes < endMinutes
        ELSE timeMinutes >= startMinutes \/ timeMinutes < endMinutes

nextWindowStart(date, startMinutes, endMinutes, spansMidnight) ==
    LET timeMinutes == minutesSinceMidnight(date)
        todayStart == dateAtMinutes(date, startMinutes)
    IN  IF ~spansMidnight
        THEN (IF timeMinutes < startMinutes THEN todayStart ELSE addDays(todayStart, 1))
        ELSE IF timeMinutes >= endMinutes /\ timeMinutes < startMinutes
        THEN todayStart
        ELSE addDays(todayStart, 1)

\* mutation: in the tail after midnight the window is anchored to today's start
windowForTailToday(date, startMinutes, endMinutes, spansMidnight) ==
    LET timeMinutes == minutesSinceMidnight(date)
        todayStart == dateAtMinutes(date, startMinutes)
    IN  IF ~spansMidnight
        THEN [start |-> todayStart, end |-> dateAtMinutes(date, endMinutes)]
        ELSE IF timeMinutes >= startMinutes
        THEN [start |-> todayStart,
              end |-> dateAtMinutes(addDays(todayStart, 1), endMinutes)]
        ELSE [start |-> todayStart, end |-> dateAtMinutes(date, endMinutes)]

windowFor(date, startMinutes, endMinutes, spansMidnight) ==
    LET timeMinutes == minutesSinceMidnight(date)
        todayStart == dateAtMinutes(date, startMinutes)
    IN  IF ~spansMidnight
        THEN [start |-> todayStart, end |-> dateAtMinutes(date, endMinutes)]
        ELSE IF timeMinutes >= startMinutes
        THEN [start |-> todayStart,
              end |-> dateAtMinutes(addDays(todayStart, 1), endMinutes)]
        ELSE [start |-> dateAtMinutes(addDays(todayStart, -1), startMinutes),
              end |-> dateAtMinutes(date, endMinutes)]

\* mutation: a cursor that lies on the grid is moved on by a whole interval
alignToIntervalForward(windowStart, cursor, intervalMinutes) ==
    LET diffMinutes == Max(0, (cursor - windowStart) \div Minute)
        remainder == diffMinutes % intervalMinutes
    IN  addMinutes(cursor, intervalMinutes - remainder)

alignToInterval(windowStart, cursor, intervalMinutes) ==
    LET diffMinutes == Max(0, (cursor - windowStart) \div Minute)
        remainder == diffMinutes % intervalMinutes
        delta == IF remainder = 0 THEN 0 ELSE intervalMinutes - remainder
    IN  addMinutes(cursor, delta)

\* input.maxCount ?? 50 and input.horizonHours ?? 24
maxCountOf(in) == IF "maxCount" \in DOMAIN in THEN in.maxCount ELSE DefaultMaxCount
horizonHoursOf(in) ==
    IF "horizonHours" \in DOMAIN in THEN in.horizonHours ELSE DefaultHorizonHours

horizonOf(now, horizonHours) == now + horizonHours * Hour

----------------------------------------------------------------------------
(* generateFallbackDates *)

\* mutation: the seconds of the first cursor are kept
fallbackStartWithSeconds(now, intervalMinutes) == addMinutes(now, intervalMinutes)

\* cursor = addMinutes(now, intervalMinutes); cursor.setSeconds(0, 0)
fallbackStart(now, intervalMinutes) ==
    LET cursor == addMinutes(now, intervalMinutes)
    IN  cursor - getSeconds(cursor)

fallbackEmits(cursor, c) ==
    /\ c.allDay \/ isWithinWindow(cursor, c.startMinutes, c.endMinutes, c.spansMidnight)
    /\ isDayActive(cursor, c.daysOfWeek)

\* A while loop is written as its condition, one round of its body, and the
\* loop: Loop(s, c, k) runs up to 2^k rounds from state s and stops at the first
\* state in which the condition fails.  LoopsRanToTheEnd states that 2^LoopDepth
\* rounds are enough for every loop of every call.

\* the loop of lines 388-396
fallbackContinues(s, c) == Len(s.results) < c.maxCount /\ s.cursor <= c.horizon

fallbackRound(s, c) ==
    [results |-> IF fallbackEmits(s.cursor, c) THEN Append(s.results, s.cursor)
                 ELSE s.results,
     cursor |-> addMinutes(s.cursor, c.intervalMinutes)]

RECURSIVE fallbackLoop(_, _, _)
fallbackLoop(s, c, k) ==
    IF ~fallbackContinues(s, c) THEN s
    ELSE IF k = 0 THEN fallbackRound(s, c)
    ELSE fallbackLoop(fallbackLoop(s, c, k - 1), c, k - 1)

generateFallbackDates(in) ==
    LET c == [allDay |-> in.startMinutes = in.endMinutes,
              spansMidnight |-> in.endMinutes < in.startMinutes,
              startMinutes |-> in.startMinutes,
              endMinutes |-> in.endMinutes,
              daysOfWeek |-> in.daysOfWeek,
              intervalMinutes |-> in.intervalMinutes,
              maxCount |-> in.maxCount,
              horizon |-> horizonOf(in.now, in.horizonHours)]
        start == [results |-> <<>>,
                  cursor |-> fallbackStart(in.now, in.intervalMinutes)]
    IN  fallbackLoop(start, c, LoopDepth).results

----------------------------------------------------------------------------
(* generateFireDates *)

\* the inner loop over one window occurrence (lines 178-183)
windowEmits(candidate, c) == candidate > c.now /\ isDayActive(candidate, c.activeDays)

\* mutation: the end of the window counts as inside it
windowContinuesToEnd(s, window, c) ==
    s.candidate <= window.end /\ s.candidate <= c.horizon /\ Len(s.results) < c.maxCount

\* mutation: a candidate equal to the horizon is left out
windowContinuesBeforeHorizon(s, window, c) ==
    s.candidate < window.end /\ s.candidate < c.horizon /\ Len(s.results) < c.maxCount

windowContinues(s, window, c) ==
    s.candidate < window.end /\ s.candidate <= c.horizon /\ Len(s.results) < c.maxCount

windowRound(s, c) ==
    [results |-> IF windowEmits(s.candidate, c) THEN Append(s.results, s.candidate)
                 ELSE s.results,
     candidate |-> addMinutes(s.candidate, c.interval)]

RECURSIVE windowLoop(_, _, _, _)
windowLoop(s, window, c, k) ==
    IF ~windowContinues(s, window, c) THEN s
    ELSE IF k = 0 THEN windowRound(s, c)
    ELSE windowLoop(windowLoop(s, window, c, k - 1), window, c, k - 1)

\* mutation: a candidate equal to now is kept
allDayCandidateAtNow(cursor, c) ==
    LET windowStart == startOfDay(cursor)
        candidate == alignToInterval(windowStart, cursor, c.interval)
    IN  IF candidate < c.now THEN addMinutes(candidate, c.interval) ELSE candidate

\* first candidate of an all-day round (lines 153-157)
allDayCandidate(cursor, c) ==
    LET windowStart == startOfDay(cursor)
        candidate == alignToInterval(windowStart, cursor, c.interval)
    IN  IF candidate <= c.now THEN addMinutes(candidate, c.interval) ELSE candidate

\* the outer loop (lines 151-185): its condition, one round, and the loop;
\* `stopped` records a break
fireContinues(s, c) ==
    ~s.stopped /\ Len(s.results) < c.maxCount /\ s.cursor <= c.horizon

allDayRound(s, c) ==
    LET candidate == allDayCandidate(s.cursor, c)
    IN  IF candidate > c.horizon THEN [s EXCEPT !.stopped = TRUE]
        ELSE [results |-> IF isDayActive(candidate, c.activeDays)
                          THEN Append(s.results, candidate) ELSE s.results,
              cursor |-> addMinutes(candidate, c.interval),
              stopped |-> FALSE]

windowedRound(s, c) ==
    LET outside == ~isWithinWindow(s.cursor, c.startMinutes, c.endMinutes, c.spansMidnight)
        nextStart == nextWindowStart(s.cursor, c.startMinutes, c.endMinutes, c.spansMidnight)
    IN  IF outside /\ nextStart > c.horizon THEN [s EXCEPT !.stopped = TRUE]
        ELSE LET cursor == IF outside THEN nextStart ELSE s.cursor
                 window == windowFor(cursor, c.startMinutes, c.endMinutes, c.spansMidnight)
                 first == [results |-> s.results,
                           candidate |-> alignToInterval(window.start, cursor, c.interval)]
             IN  [results |-> windowLoop(first, window, c, LoopDepth).results,
                  cursor |-> addMinutes(window.end, 1),
                  stopped |-> FALSE]

fireRound(s, c) == IF c.allDay THEN allDayRound(s, c) ELSE windowedRound(s, c)

RECURSIVE fireLoop(_, _, _)
fireLoop(s, c, k) ==
    IF ~fireContinues(s, c) THEN s
    ELSE IF k = 0 THEN fireRound(s, c)
    ELSE fireLoop(fireLoop(s, c, k - 1), c, k - 1)

\* mutation: a rule is all-day only when its window starts and ends at midnight
fireContextMidnightOnly(in) ==
    LET startMinutes == normalizeMinutes(in.startMinutesFromMidnight)
        endMinutes == normalizeMinutes(in.endMinutesFromMidnight)
    IN  [interval |-> clamp(in.intervalMinutes, MIN_INTERVAL, MAX_INTERVAL),
         startMinutes |-> startMinutes,
         endMinutes |-> endMinutes,
         maxCount |-> maxCountOf(in),
         horizonHours |-> horizonHoursOf(in),
         activeDays |-> normalizeDaysOfWeek(in),
         now |-> in.now,
         horizon |-> horizonOf(in.now, horizonHoursOf(in)),
         allDay |-> startMinutes = 0 /\ endMinutes = 0,
         spansMidnight |-> endMinutes < startMinutes]

\* the locals of generateFireDates (lines 134-148)
fireContext(in) ==
    LET startMinutes == normalizeMinutes(in.startMinutesFromMidnight)
        endMinutes == normalizeMinutes(in.endMinutesFromMidnight)
    IN  [interval |-> clamp(in.intervalMinutes, MIN_INTERVAL, MAX_INTERVAL),
         startMinutes |-> startMinutes,
         endMinutes |-> endMinutes,
         maxCount |-> maxCountOf(in),
         horizonHours |-> horizonHoursOf(in),
         activeDays |-> normalizeDaysOfWeek(in),
         now |-> in.now,
         horizon |-> horizonOf(in.now, horizonHoursOf(in)),
         allDay |-> startMinutes = endMinutes,
         spansMidnight |-> endMinutes < startMinutes]

\* the result of the window-aligned search, before the fallback decision
windowSearch(in) ==
    fireLoop([results |-> <<>>, cursor |-> in.now, stopped |-> FALSE],
             fireContext(in), LoopDepth).results

\* whether generateFireDates(in) reaches the call of line 188: the early return
\* of lines 140-142 is not taken and the loop has left results empty
fallbackCalled(in) ==
    someDayActive(fireContext(in).activeDays) /\ Len(windowSearch(in)) = 0

generateFireDates(in) ==
    LET c == fireContext(in)
    IN  IF ~someDayActive(c.activeDays) THEN <<>>
        ELSE LET results == windowSearch(in)
             IN  IF Len(results) = 0
                 THEN generateFallbackDates([now |-> c.now,
                                             intervalMinutes |-> c.interval,
                                             startMinutes |-> c.startMinutes,
                                             endMinutes |-> c.endMinutes,
                                             daysOfWeek |-> c.activeDays,
                                             maxCount |-> c.maxCount,
                                             horizonHours |-> c.horizonHours])
                 ELSE results

----------------------------------------------------------------------------
(* generateFixedTimeDates and generateMonthlyDates *)

\* mutation: the candidate is not compared with the horizon
fixedTimeEmitsPastHorizon(candidate, now, horizon, activeDays) ==
    candidate > now /\ isDayActive(candidate, activeDays)

fixedTimeEmits(candidate, now, horizon, activeDays) ==
    candidate > now /\ candidate <= horizon /\ isDayActive(candidate, activeDays)

\* mutation: the loop runs one round too many
fixedTimeContinuesOneMore(s, c) == Len(s.results) <= c.maxCount /\ s.cursor <= c.horizon

\* mutation: the loop stops when the next day starts after the horizon
fixedTimeContinuesStopsEarly(s, c) ==
    Len(s.results) < c.maxCount /\ addDays(s.cursor, 1) <= c.horizon

\* mutation: the rule's own budget is one short of maxCount
fixedTimeContinuesOneShort(s, c) ==
    Len(s.results) < c.maxCount - 1 /\ s.cursor <= c.horizon

\* the loop of lines 214-220
fixedTimeContinues(s, c) == Len(s.results) < c.maxCount /\ s.cursor <= c.horizon

\* mutation: the cursor is not moved to the next day
fixedTimeRoundSameDay(s, c) ==
    LET candidate == dateAtMinutes(s.cursor, c.timeMinutes)
    IN  [results |-> IF fixedTimeEmits(candidate, c.now, c.horizon, c.activeDays)
                     THEN Append(s.results, candidate) ELSE s.results,
         cursor |-> s.cursor]

fixedTimeRound(s, c) ==
    LET candidate == dateAtMinutes(s.cursor, c.timeMinutes)
    IN  [results |-> IF fixedTimeEmits(candidate, c.now, c.horizon, c.activeDays)
                     THEN Append(s.results, candidate) ELSE s.results,
         cursor |-> addDays(s.cursor, 1)]

RECURSIVE fixedTimeLoop(_, _, _)
fixedTimeLoop(s, c, k) ==
    IF ~fixedTimeContinues(s, c) THEN s
    ELSE IF k = 0 THEN fixedTimeRound(s, c)
    ELSE fixedTimeLoop(fixedTimeLoop(s, c, k - 1), c, k - 1)

generateFixedTimeDates(in) ==
    LET c == [maxCount |-> maxCountOf(in),
              now |-> in.now,
              horizon |-> horizonOf(in.now, horizonHoursOf(in)),
              activeDays |-> normalizeDaysOfWeek(in),
              timeMinutes |-> in.timeMinutes]
    IN  IF ~someDayActive(c.activeDays) THEN <<>>
        ELSE fixedTimeLoop([results |-> <<>>, cursor |-> startOfDay(in.now)],
                           c, LoopDepth).results

\* mutation: the day is not clamped to the length of the month
monthlyCandidateUnclamped(cursor, dayOfMonth, timeMinutes) ==
    dateAtMinutes(NewDate(getFullYear(cursor), getMonth(cursor), dayOfMonth), timeMinutes)

\* the candidate of the month that holds cursor (lines 236-240)
monthlyCandidate(cursor, dayOfMonth, timeMinutes) ==
    LET year == getFullYear(cursor)
        month == getMonth(cursor)
        daysInThisMonth == getDaysInMonth(year, month)
        clampedDay == Min(dayOfMonth, daysInThisMonth)
    IN  dateAtMinutes(NewDate(year, month, clampedDay), timeMinutes)

\* the loop of lines 235-245
monthlyContinues(s, c) == Len(s.results) < c.maxCount /\ s.cursor <= c.horizon

monthlyEmits(candidate, now, horizon) == candidate > now /\ candidate <= horizon

monthlyRound(s, c) ==
    LET candidate == monthlyCandidate(s.cursor, c.dayOfMonth, c.timeMinutes)
    IN  [results |-> IF monthlyEmits(candidate, c.now, c.horizon)
                     THEN Append(s.results, candidate) ELSE s.results,
         cursor |-> addMonths(s.cursor, 1)]

RECURSIVE monthlyLoop(_, _, _)
monthlyLoop(s, c, k) ==
    IF ~monthlyContinues(s, c) THEN s
    ELSE IF k = 0 THEN monthlyRound(s, c)
    ELSE monthlyLoop(monthlyLoop(s, c, k - 1), c, k - 1)

generateMonthlyDates(in) ==
    LET c == [maxCount |-> maxCountOf(in),
              now |-> in.now,
              horizon |-> horizonOf(in.now, horizonHoursOf(in)),
              dayOfMonth |-> normalizeDayOfMonth(in),
              timeMinutes |-> in.timeMinutes]
        start == [results |-> <<>>,
                  cursor |-> NewDate(getFullYear(in.now), getMonth(in.now), 1)]
    IN  monthlyLoop(start, c, LoopDepth).results

----------------------------------------------------------------------------
(* buildNotificationQueue *)

\* `daysOfWeek: schedule.daysOfWeek` passes the field on only when it is set
withDaysOfWeek(in, schedule) ==
    IF "daysOfWeek" \in DOMAIN schedule
    THEN in @@ [daysOfWeek |-> schedule.daysOfWeek]
    ELSE in

\* the ScheduleInput handed to generateFireDates (lines 94-102)
fireInputOf(schedule, now, maxCount, horizonHours) ==
    withDaysOfWeek(
        [now |-> now,
         intervalMinutes |-> schedule.intervalMinutes,
         startMinutesFromMidnight |-> schedule.startMinutesFromMidnight,
         endMinutesFromMidnight |-> schedule.endMinutesFromMidnight,
         maxCount |-> maxCount,
         horizonHours |-> horizonHours], schedule)

\* the FixedTimeInput handed to generateFixedTimeDates (lines 104-110)
fixedTimeInputOf(schedule, now, maxCount, horizonHours) ==
    withDaysOfWeek(
        [now |-> now,
         timeMinutes |-> schedule.startMinutesFromMidnight,
         maxCount |-> maxCount,
         horizonHours |-> horizonHours], schedule)

\* the MonthlyInput handed to generateMonthlyDates (lines 112-118)
monthlyInputOf(schedule, now, maxCount, horizonHours) ==
    [now |-> now,
     timeMinutes |-> schedule.startMinutesFromMidnight,
     dayOfMonth |-> normalizeDayOfMonth(schedule),
     maxCount |-> maxCount,
     horizonHours |-> horizonHours]

\* mutation: a monthly rule without an active weekday gets no dates
datesOfMaskedMonthly(schedule, now, maxCount, horizonHours) ==
    IF schedule.type = "withinDay"
    THEN generateFireDates(fireInputOf(schedule, now, maxCount, horizonHours))
    ELSE IF schedule.type = "daily" \/ schedule.type = "weekly"
    THEN generateFixedTimeDates(fixedTimeInputOf(schedule, now, maxCount, horizonHours))
    ELSE IF schedule.type = "monthly"
    THEN IF ~someDayActive(normalizeDaysOfWeek(schedule)) THEN <<>>
         ELSE generateMonthlyDates(monthlyInputOf(schedule, now, maxCount, horizonHours))
    ELSE <<>>

\* the `dates` of one schedule (lines 92-119)
datesOf(schedule, now, maxCount, horizonHours) ==
    IF schedule.type = "withinDay"
    THEN generateFireDates(fireInputOf(schedule, now, maxCount, horizonHours))
    ELSE IF schedule.type = "daily" \/ schedule.type = "weekly"
    THEN generateFixedTimeDates(fixedTimeInputOf(schedule, now, maxCount, horizonHours))
    ELSE IF schedule.type = "monthly"
    THEN generateMonthlyDates(monthlyInputOf(schedule, now, maxCount, horizonHours))
    ELSE <<>>

\* mutation: every entry carries the message of the first schedule's kind
entriesWithoutMessage(schedule, ds) ==
    [i \in 1..Len(ds) |->
        [scheduleId |-> schedule.id, date |-> ds[i], message |-> schedule.type]]

\* the entries pushed for one schedule (lines 120-126)
entriesOf(schedule, ds) ==
    [i \in 1..Len(ds) |->
        [scheduleId |-> schedule.id, date |-> ds[i], message |-> schedule.message]]

RECURSIVE combine(_, _, _)
combine(list, perSchedule, n) ==
    IF n = 0 THEN <<>>
    ELSE combine(list, perSchedule, n - 1) \o entriesOf(list[n], perSchedule[n])

\* mutation: the comparator orders by descending date
compareDatesDescending(a, b) == b.date - a.date

\* the comparator of line 129
compareDates(a, b) == a.date - b.date

\* mutation: a sort that is not stable (ties come out reversed)
precedesUnstable(seq, j, i) ==
    \/ compareDates(seq[j], seq[i]) < 0
    \/ compareDates(seq[j], seq[i]) = 0 /\ j > i

\* Array.prototype.sort(compare) is stable: element j comes before element i
\* when compare puts it first, or when compare ties and j was first in the array.
precedes(seq, j, i) ==
    \/ compareDates(seq[j], seq[i]) < 0
    \/ compareDates(seq[j], seq[i]) = 0 /\ j < i

\* mutation: the combined entries are left in the order of the schedules
sortByDateSkipped(seq) == seq

sortByDate(seq) ==
    LET n == Len(seq)
        place == SubSeq([i \in 1..n |->
                    Cardinality({j \in 1..n : precedes(seq, j, i)}) + 1], 1, n)
    IN  [p \in 1..n |-> seq[CHOOSE i \in 1..n : place[i] = p]]

\* Array.prototype.slice(0, end)
slice(seq, end) ==
    LET to == IF end < 0 THEN Max(Len(seq) + end, 0) ELSE Min(end, Len(seq))
    IN  SubSeq(seq, 1, to)

\* the `dates` computed for every schedule of the input, in input order
allDates(in) ==
    [i \in 1..Len(in.schedules) |->
        datesOf(in.schedules[i], in.now, maxCountOf(in), horizonHoursOf(in))]

\* per schedule of the input, whether its branch called generateFallbackDates
\* (only generateFireDates does, lines 93-102 and 187-197)
allSweeps(in) ==
    [i \in 1..Len(in.schedules) |->
        /\ in.schedules[i].type = "withinDay"
        /\ fallbackCalled(fireInputOf(in.schedules[i], in.now, maxCountOf(in),
                                      horizonHoursOf(in)))]

combinedOf(in, perSchedule) == combine(in.schedules, perSchedule, Len(in.schedules))

buildNotificationQueue(in) ==
    LET combined == combinedOf(in, allDates(in))
    IN  slice(sortByDate(combined), maxCountOf(in))

\* mutation: a call with a malformed mask clears the shared array it was handed
sharedDaysCleared(in) ==
    IF \E i \in DOMAIN in.schedules :
           \/ "daysOfWeek" \notin DOMAIN in.schedules[i]
           \/ Len(in.schedules[i].daysOfWeek) # 7
    THEN [i \in 1..7 |-> FALSE]
    ELSE DEFAULT_DAYS

\* No call path writes to the array that normalizeDaysOfWeek hands out:
\* activeDays is only read (lines 140, 161, 179, 208, 216, 391).
sharedDaysAfter(in) == DEFAULT_DAYS

----------------------------------------------------------------------------
(* The inputs the calls are made with *)

At(year, monthIndex, day, minutes, seconds) ==
    NewDate(year, monthIndex, day) + minutes * Minute + seconds

Monday == NewDate(Epoch.year, 0, 1)

AllDays == <<TRUE, TRUE, TRUE, TRUE, TRUE, TRUE, TRUE>>
MondayOnly == <<TRUE, FALSE, FALSE, FALSE, FALSE, FALSE, FALSE>>
Weekend == <<FALSE, FALSE, FALSE, FALSE, FALSE, TRUE, TRUE>>
NoDays == <<FALSE, FALSE, FALSE, FALSE, FALSE, FALSE, FALSE>>
ShortMask == <<FALSE, TRUE>>

\* a record without fields: an optional field that is not set
Unset == [x \in {} |-> TRUE]

Within(interval, window, days) ==
    [type |-> "withinDay", intervalMinutes |-> interval,
     startMinutesFromMidnight |-> window[1], endMinutesFromMidnight |-> window[2]] @@ days

FixedTime(type, minutes, days) ==
    [type |-> type, intervalMinutes |-> 60,
     startMinutesFromMidnight |-> minutes, endMinutesFromMidnight |-> 0] @@ days

Monthly(minutes, dayOfMonth, days) ==
    [type |-> "monthly", intervalMinutes |-> 60,
     startMinutesFromMidnight |-> minutes, endMinutesFromMidnight |-> 0]
        @@ dayOfMonth @@ days

\* a schedule type that is none of the four kinds
Yearly ==
    [type |-> "yearly", intervalMinutes |-> 60,
     startMinutesFromMidnight |-> 540, endMinutesFromMidnight |-> 1020]

Days(mask) == [daysOfWeek |-> mask]
Hours(n) == [horizonHours |-> n]
Count(n) == [maxCount |-> n]
DayOfMonth(n) == [dayOfMonth |-> n]

MaxCountChoices == {Unset} \cup {Count(n) : n \in 0..MaxCountBound}

Windows == {<<0, 0>>, <<540, 540>>, <<540, 1020>>, <<1260, 360>>, <<120, 180>>,
            <<1439, 49>>}

Ids == <<"s1", "s2", "s3", "s4">>
Messages == <<"Stand up", "Drink water", "Stretch", "Look away">>

Named(shape, i) == shape @@ [id |-> Ids[i], message |-> Messages[i]]

QueueInput(now, shapes, mc, hh) ==
    [now |-> now, schedules |-> [i \in 1..Len(shapes) |-> Named(shapes[i], i)]] @@ mc @@ hh

WeekNows ==
    {Monday + 490 * Minute, Monday + 1200 * Minute, Monday + 540 * Minute,
     Monday + 610 * Minute + 30, Monday + 240 * Minute,
     Monday + 4 * Day + 1350 * Minute + 15, Monday + 6 * Day + 1438 * Minute}

MonthNows ==
    {At(2018, 1, 15, 0, 0), At(2018, 1, 15, 720, 0), At(2018, 0, 31, 540, 0),
     At(2018, 11, 31, 600, 20), At(2020, 1, 15, 0, 0), At(2018, 3, 30, 539, 59)}

\* interval grids and windows
GridInputs ==
    {QueueInput(now, <<Within(i, w, Days(m))>>, mc, hh) :
        now \in WeekNows, i \in {50, 60}, w \in Windows,
        m \in {AllDays, MondayOnly, Weekend},
        mc \in {Unset, Count(MaxCountBound)}, hh \in {Unset, Hours(48)}}

\* small counts and horizons
LimitInputs ==
    {QueueInput(now, <<Within(60, w, Days(AllDays))>>, mc, hh) :
        now \in {Monday + 490 * Minute, Monday + 540 * Minute, Monday + 610 * Minute + 30},
        w \in {<<0, 0>>, <<540, 1020>>, <<1260, 360>>, <<600, 599>>},
        mc \in MaxCountChoices, hh \in {Hours(0), Hours(1), Unset}}

\* fields that the generator normalizes
NormalizedInputs ==
    {QueueInput(now, <<Within(i, w, d)>>, mc, Unset) :
        now \in {Monday + 490 * Minute, Monday + 4 * Day + 1350 * Minute + 15},
        i \in {3, 200}, w \in {<<0, 0>>, <<540, 1020>>, <<1500, -60>>},
        d \in {Unset, Days(AllDays), Days(NoDays), Days(ShortMask)},
        mc \in {Unset, Count(MaxCountBound)}}

FixedTimeShapes ==
    {FixedTime("daily", m, d) :
        m \in {0, 540, 1439, -60, 1500},
        d \in {Unset, Days(AllDays), Days(NoDays), Days(ShortMask)}}
    \cup {FixedTime("weekly", m, Days(d)) :
        m \in {0, 540, 1439, -60, 1500}, d \in {MondayOnly, Weekend}}

FixedTimeInputs ==
    {QueueInput(now, <<sh>>, mc, hh) :
        now \in {Monday + 540 * Minute, Monday + 610 * Minute + 30,
                 Monday + 4 * Day + 1350 * Minute + 15},
        sh \in FixedTimeShapes, mc \in {Unset, Count(0), Count(MaxCountBound)},
        hh \in {Unset, Hours(0), Hours(192)}}

MonthlyShapes ==
    {Monthly(m, d, Unset) :
        m \in {540, 1500},
        d \in {Unset} \cup {DayOfMonth(n) : n \in {0, 1, 15, 30, 31, 40}}}
    \cup {Monthly(540, DayOfMonth(31), Days(NoDays))}

MonthlyInputs ==
    {QueueInput(now, <<sh>>, mc, hh) :
        now \in MonthNows, sh \in MonthlyShapes,
        mc \in {Unset, Count(1), Count(MaxCountBound)},
        hh \in {Unset, Hours(336), Hours(1500)}}

\* lists of schedules: generated instants of different schedules interleave and tie
MixShapes ==
    {Within(60, <<0, 0>>, Days(AllDays)), Within(50, <<540, 1020>>, Unset),
     FixedTime("daily", 540, Unset), Monthly(540, DayOfMonth(1), Unset), Yearly}

RECURSIVE Lists(_, _)
Lists(S, n) ==
    IF n = 0 THEN {<<>>}
    ELSE LET shorter == Lists(S, n - 1)
         IN  shorter \cup {Append(l, x) : l \in shorter, x \in S}

MixedInputs ==
    {QueueInput(now, l, mc, hh) :
        now \in {Monday + 490 * Minute, Monday + 4 * Day + 1350 * Minute + 15},
        l \in Lists(MixShapes, MaxSchedules),
        mc \in {Unset, Count(1), Count(MaxCountBound)}, hh \in {Unset, Hours(48)}}

\* rules whose 7-element weekday mask has no active day
EmptyMaskShapes ==
    {Within(i, w, Days(NoDays)) : i \in {5, 60}, w \in {<<0, 0>>, <<540, 1020>>, <<1260, 360>>}}
    \cup {FixedTime(t, 540, Days(NoDays)) : t \in {"daily", "weekly"}}

EmptyMaskInputs ==
    {QueueInput(now, <<sh>>, mc, hh) :
        now \in {Monday + 540 * Minute, Monday + 4 * Day + 1350 * Minute + 15},
        sh \in EmptyMaskShapes, mc \in {Unset, Count(1)},
        hh \in {Hours(0), Unset, Hours(168)}}

\* windows that the horizon does not reach, or that hold a single grid point
FallbackInputs ==
    {QueueInput(now, <<Within(i, w, Days(m))>>, mc, hh) :
        now \in {Monday + 240 * Minute, Monday + 4 * Day + 1350 * Minute + 15,
                 Monday + 4 * Day + 1390 * Minute},
        i \in {50, 60}, w \in {<<120, 180>>, <<1439, 49>>, <<1430, 20>>},
        m \in {AllDays, Weekend}, mc \in {Count(0), Count(1), Unset},
        hh \in {Hours(1), Hours(2), Unset}}

\* horizons of a week: a single active weekday, short and long intervals
TuesdayOnly == <<FALSE, TRUE, FALSE, FALSE, FALSE, FALSE, FALSE>>

WeekLongInputs ==
    {QueueInput(now, <<Within(i, w, Days(m))>>, mc, Hours(168)) :
        now \in {Monday + 600 * Minute, Monday + 600 * Minute + 30,
                 Monday + 604 * Minute + 30, Monday + 1439 * Minute,
                 Monday + Day, Monday + Day + 30 * Minute,
                 Monday + 4 * Day + 1350 * Minute + 15},
        i \in {5, 50, 180},
        w \in {<<0, 0>>, <<600, 605>>, <<1439, 49>>, <<1260, 360>>, <<600, 599>>},
        m \in {MondayOnly, TuesdayOnly, Weekend}, mc \in {Count(1), Unset}}

\* field values outside their ranges
LongMask == <<TRUE, FALSE, TRUE, FALSE, TRUE, FALSE, TRUE, FALSE>>

OutOfRangeShapes ==
    {Within(0, <<-1, 2000>>, Days(ShortMask)), Within(-5, <<1440, 1440>>, Unset),
     Within(1000, <<-1441, 2879>>, Days(LongMask)),
     FixedTime("daily", -1500, Days(LongMask)), FixedTime("weekly", 2880, Days(<<>>)),
     Monthly(-60, DayOfMonth(-3), Unset), Monthly(3000, DayOfMonth(32), Days(ShortMask)),
     Yearly}

OutOfRangeInputs ==
    {QueueInput(now, <<sh>>, mc, hh) :
        now \in {Monday + 490 * Minute, Monday + 4 * Day + 1350 * Minute + 15},
        sh \in OutOfRangeShapes, mc \in {Count(-1), Count(0), Unset},
        hh \in {Hours(-1), Hours(0), Unset}}

\* all-day rules: intervals that do and do not divide the day, now late in the
\* evening, on and off a whole minute
AllDayInputs ==
    {QueueInput(now, <<Within(i, <<0, 0>>, Days(m))>>, Unset, hh) :
        now \in {Monday + 1400 * Minute, Monday + 610 * Minute + 30, Monday + 490 * Minute},
        i \in {7, 50, 60, 177}, m \in {AllDays, Weekend}, hh \in {Unset, Hours(48)}}

\* lists of rules whose instants never coincide: an hourly grid from midnight,
\* a 50-minute grid from 09:05, and fixed times off both grids
ApartShapes ==
    {Within(60, <<0, 0>>, Days(AllDays)), Within(50, <<545, 1020>>, Unset),
     FixedTime("daily", 570, Unset), FixedTime("weekly", 575, Days(MondayOnly))}

ApartInputs ==
    {QueueInput(now, l, mc, hh) :
        now \in {Monday + 490 * Minute, Monday + 610 * Minute + 30},
        l \in Lists(ApartShapes, MaxSchedules),
        mc \in {Unset, Count(1), Count(MaxCountBound)}, hh \in {Unset}}

\* weekday masks that do not have 7 elements
LongNoDays == <<FALSE, FALSE, FALSE, FALSE, FALSE, FALSE, FALSE, FALSE>>

MalformedMaskShapes ==
    {Within(60, w, Days(m)) :
        w \in {<<0, 0>>, <<540, 1020>>}, m \in {<<>>, ShortMask, LongNoDays, LongMask}}
    \cup {FixedTime(t, 540, Days(m)) :
        t \in {"daily", "weekly"}, m \in {<<>>, LongNoDays}}

MalformedMaskInputs ==
    {QueueInput(now, <<sh>>, mc, hh) :
        now \in {Monday + 490 * Minute, Monday + 4 * Day + 1350 * Minute + 15},
        sh \in MalformedMaskShapes, mc \in {Unset, Count(1)}, hh \in {Unset, Hours(48)}}

\* the inputs of the calls made in between
OtherInputs ==
    {QueueInput(Monday + 490 * Minute, <<Within(60, <<0, 0>>, d)>>, Unset, Unset) :
        d \in {Unset, Days(MondayOnly), Days(ShortMask)}}

Inputs == GridInputs \cup LimitInputs \cup NormalizedInputs \cup FixedTimeInputs
            \cup MonthlyInputs \cup MixedInputs \cup EmptyMaskInputs \cup FallbackInputs
            \cup WeekLongInputs \cup OutOfRangeInputs \cup AllDayInputs

\* the inputs of the calls that follow one rule through its normalization:
\* windows, fixed times, days of the month and weekday masks in and out of
\* range, and lists of rules whose instants never coincide
RuleInputs == GridInputs \cup NormalizedInputs \cup FixedTimeInputs \cup MonthlyInputs
                \cup EmptyMaskInputs \cup OutOfRangeInputs \cup AllDayInputs
                \cup ApartInputs \cup MalformedMaskInputs

----------------------------------------------------------------------------
(* The app component (src/unnamed/part_000): the schedules, the debounced  *)
(* reschedule timers and the async handlers that cancel and register        *)
(* notifications.  A Schedule is modelled by its id, its intervalMinutes     *)
(* (standing for the five fields that the schedule-change effect compares)  *)
(* and isActive.  A state update is followed by its render and the effects  *)
(* of that render within the same step.  The model starts when hydration    *)
(* has completed (isHydrated is true from then on).  setTimeout returns a    *)
(* handle that no running timeout has.                                       *)

AppIds == {"s1", "s2"}
IdOrder == <<"s1", "s2">>        \* the order of the schedules in the array
Intervals == {30, 35}

MaxPresses == 3         \* handlers invoked by the user: edits, toggles, removals
MaxInFlight == 2        \* calls of async handlers suspended at the same time

\* the patches of updateSchedule(id, patch) and stepInterval
Patches == {[intervalMinutes |-> v] : v \in Intervals}

\* setSchedules of setScheduleActive (lines 579-585)
setScheduleActive(current, scheduleId, isActive) ==
    [id \in DOMAIN current |->
        IF id = scheduleId THEN [current[id] EXCEPT !.isActive = isActive] ELSE current[id]]

\* setSchedules of updateSchedule: { ...schedule, ...patch } (lines 690-696)
updateSchedule(current, id, patch) ==
    [i \in DOMAIN current |-> IF i = id THEN patch @@ current[i] ELSE current[i]]

\* setSchedules of removeSchedule (line 857)
withoutSchedule(current, id) == [i \in DOMAIN current \ {id} |-> current[i]]

\* the timer state that the handlers work on
Timers == [map |-> rescheduleTimers, live |-> timeouts]

\* the handle returned by setTimeout: one that no running timeout has
setTimeout(live) ==
    CHOOSE h \in 1..(Cardinality(live) + 1) :
        /\ \A x \in live : x.handle # h
        /\ \A g \in 1..(h - 1) : \E x \in live : x.handle = g

clearRescheduleTimer(t, scheduleId) ==
    IF scheduleId \in DOMAIN t.map
    THEN [t EXCEPT !.live = {x \in t.live : x.handle # t.map[scheduleId]},
                   !.map = [i \in DOMAIN t.map \ {scheduleId} |-> t.map[i]]]
    ELSE t

\* mutation: the pending timer is not cleared before the new one is set
debouncedRescheduleKeepingTimer(t, schedule, status) ==
    LET timer == setTimeout(t.live)
    IN  [map |-> (schedule.id :> timer) @@ t.map,
         live |-> t.live \cup {[handle |-> timer, schedule |-> schedule,
                                authorizationStatus |-> status]}]

\* The callback closes over the schedule and over the rescheduleSchedule of
\* the render that ran the effect, hence over that render's authorizationStatus.
debouncedReschedule(t, schedule, status) ==
    LET c == clearRescheduleTimer(t, schedule.id)
        timer == setTimeout(c.live)
    IN  [map |-> (schedule.id :> timer) @@ c.map,
         live |-> c.live \cup {[handle |-> timer, schedule |-> schedule,
                                authorizationStatus |-> status]}]

\* hasChanged of the schedule-change effect (lines 357-362)
hasChanged(schedule, previous) == schedule.intervalMinutes # previous.intervalMinutes

\* the schedule-change effect over the first n schedules (lines 349-366)
RECURSIVE scheduleChangeEffect(_, _, _, _, _)
scheduleChangeEffect(t, current, previous, status, n) ==
    IF n = 0 THEN t
    ELSE LET before == scheduleChangeEffect(t, current, previous, status, n - 1)
             id == IdOrder[n]
         IN  IF id \notin DOMAIN current THEN before
             ELSE IF id \notin DOMAIN previous \/ ~current[id].isActive
                     \/ ~previous[id].isActive
             THEN before
             ELSE IF hasChanged(current[id], previous[id])
             THEN debouncedReschedule(before, current[id], status)
             ELSE before

\* the call that rescheduleSchedule(schedule, {preserveActive: true}) leaves
\* suspended: none when authorizationStatus is not 'authorized' (lines 593-599),
\* else one waiting for cancelScheduleNotifications (lines 553-554, 602)
rescheduleSchedule(schedule, status) ==
    IF status # "authorized" THEN {}
    ELSE {[op |-> "rescheduleSchedule", schedule |-> schedule,
           at |-> "cancelScheduleNotifications", pending |-> 0]}

\* cancelScheduleNotifications(id) removes what is registered for the id
cancelScheduleNotifications(reg, id) == [i \in DOMAIN reg \ {id} |-> reg[i]]

\* scheduleBatch([schedule]) registers the notifications of the schedule
scheduleBatch(reg, schedule) == (schedule.id :> schedule.intervalMinutes) @@ reg

\* the handle of the timer pending for the id, 0 when there is none
pendingHandle(id) == IF id \in DOMAIN rescheduleTimers THEN rescheduleTimers[id] ELSE 0

timeoutsOf(live, id) == Cardinality({x \in live : x.schedule.id = id})

suspended(task, at) == (inFlight \ {task}) \cup {[task EXCEPT !.at = at]}

\* the settings that hydration may load (lines 181-198)
StoredSchedules ==
    {[id \in AppIds |-> [id |-> id, intervalMinutes |-> 30,
                          isActive |-> active[id]]] : active \in [AppIds -> BOOLEAN]}

\* the engine is not called by the steps of the app model
EngineIdle ==
    /\ input = QueueInput(Monday, <<>>, Unset, Unset)
    /\ pc = "ready"
    /\ dates = <<>>
    /\ queue = <<>>
    /\ again = <<>>
    /\ DEFAULT_DAYS = AllDays
    /\ calls = 0
    /\ swept = <<>>

\* the component is not mounted in the runs of the engine model
Unmounted ==
    /\ schedules = <<>>
    /\ quietHours = FALSE
    /\ authorizationStatus = "unknown"
    /\ previousSchedulesRef = <<>>
    /\ rescheduleTimers = <<>>
    /\ timeouts = {}
    /\ inFlight = {}
    /\ presses = 0
    /\ registered = <<>>
    /\ stoppedIds = {}
    /\ lastEdit = <<>>
    /\ burst = [id \in AppIds |-> 0]
    /\ debounced = <<>>
    /\ afterClear = 0
    /\ startKept = FALSE

\* The state in which hydration leaves the component: the stored schedules,
\* the permission as refreshAuthorization found it, the schedule-change
\* effect run with no previous schedules, and the quiet-hours effect having
\* called rescheduleSchedule for every active schedule (lines 181-198, 336-368).
AppInit ==
    /\ EngineIdle
    /\ schedules \in StoredSchedules
    /\ quietHours = FALSE
    /\ authorizationStatus \in {"authorized", "denied", "unknown"}
    /\ previousSchedulesRef = schedules
    /\ rescheduleTimers = <<>>
    /\ timeouts = {}
    /\ inFlight = UNION {rescheduleSchedule(schedules[id], authorizationStatus) :
                            id \in {i \in AppIds : schedules[i].isActive}}
    /\ presses = 0
    /\ registered = [id \in {i \in AppIds : schedules[i].isActive} |->
                        schedules[id].intervalMinutes]
    /\ stoppedIds = {}
    /\ lastEdit = <<>>
    /\ burst = [id \in AppIds |-> 0]
    /\ debounced = <<>>
    /\ afterClear = 0
    /\ startKept = FALSE

SetTimers(t) ==
    /\ rescheduleTimers' = t.map
    /\ timeouts' = t.live

\* the render of the schedules `next` and its schedule-change effect, which
\* ends with previousSchedulesRef.current = schedules (line 367)
Commit(next, t, status) ==
    /\ schedules' = next
    /\ previousSchedulesRef' = next
    /\ SetTimers(scheduleChangeEffect(t, next, previousSchedulesRef, status, Len(IdOrder)))

\* no state update of the schedules: no render of them, no effect
Keep(t) ==
    /\ SetTimers(t)
    /\ UNCHANGED <<schedules, previousSchedulesRef>>

\* updateSchedule(id, patch), stepInterval (lines 690-733) and the effect
UpdateSchedule(id, patch) ==
    /\ id \in DOMAIN schedules
    /\ presses < MaxPresses
    /\ presses' = presses + 1
    /\ LET next == updateSchedule(schedules, id, patch)
           qualifies == /\ schedules[id].isActive
                        /\ next[id].intervalMinutes # schedules[id].intervalMinutes
       IN  /\ Commit(next, Timers, authorizationStatus)
           /\ lastEdit' = IF qualifies THEN (id :> next[id]) @@ lastEdit ELSE lastEdit
           /\ burst' = IF qualifies THEN [burst EXCEPT ![id] = @ + 1] ELSE burst
    /\ UNCHANGED <<quietHours, authorizationStatus, inFlight, registered, stoppedIds,
                   debounced, afterClear, startKept, engineVars>>

\* updateQuietHours (lines 558-560) and the quiet-hours effect (lines 336-344)
UpdateQuietHours ==
    LET started == UNION {rescheduleSchedule(schedules[id], authorizationStatus) :
                            id \in {i \in DOMAIN schedules : schedules[i].isActive}}
    IN  /\ Cardinality(inFlight \cup started) <= MaxInFlight
        /\ presses < MaxPresses
        /\ presses' = presses + 1
        /\ quietHours' = ~quietHours
        /\ inFlight' = inFlight \cup started
        /\ UNCHANGED <<schedules, authorizationStatus, previousSchedulesRef, rescheduleTimers,
                       timeouts, registered, stoppedIds, lastEdit, burst,
                       debounced, afterClear, startKept, engineVars>>

\* the callback of a timeout set by debouncedReschedule (lines 634-637)
TimerFires(x) ==
    LET id == x.schedule.id
        started == rescheduleSchedule(x.schedule, x.authorizationStatus)
        left == timeouts \ {x}
    IN  /\ x \in timeouts
        /\ Cardinality(inFlight \cup started) <= MaxInFlight
        /\ timeouts' = left
        /\ rescheduleTimers' = [i \in DOMAIN rescheduleTimers \ {id} |-> rescheduleTimers[i]]
        /\ inFlight' = inFlight \cup started
        /\ debounced' = (id :> [with |-> x.schedule,
                                lastEdit |-> x.schedule = lastEdit[id],
                                edits |-> burst[id],
                                left |-> timeoutsOf(left, id)]) @@ debounced
        /\ burst' = [burst EXCEPT ![id] = 0]
        /\ UNCHANGED <<schedules, quietHours, authorizationStatus, previousSchedulesRef,
                       registered, stoppedIds, lastEdit, afterClear,
                       startKept, presses, engineVars>>

\* onStartSchedule(id) up to its first await (lines 641-656); the toggle
\* offers it for a schedule that is not active (lines 1033-1036)
OnStartSchedule(id) ==
    /\ id \in DOMAIN schedules
    /\ ~schedules[id].isActive
    /\ presses < MaxPresses
    /\ presses' = presses + 1
    /\ LET next == setScheduleActive(schedules, id, TRUE)
           call == [op |-> "onStartSchedule",
                    schedule |-> [schedules[id] EXCEPT !.isActive = TRUE],
                    at |-> IF authorizationStatus = "authorized"
                           THEN "cancelScheduleNotifications"
                           ELSE "requestAuthorization",
                    pending |-> pendingHandle(id)]
           cleared == clearRescheduleTimer(Timers, id)
       IN  /\ Cardinality(inFlight \cup {call}) <= MaxInFlight
           /\ inFlight' = inFlight \cup {call}
           /\ IF authorizationStatus = "authorized"
              THEN /\ Commit(next, cleared, authorizationStatus)
                   /\ afterClear' = timeoutsOf(cleared.live, id)
                   /\ burst' = [burst EXCEPT ![id] = 0]
              ELSE /\ Commit(next, Timers, authorizationStatus)
                   /\ UNCHANGED <<afterClear, burst>>
    /\ stoppedIds' = stoppedIds \ {id}
    /\ UNCHANGED <<quietHours, authorizationStatus, registered, lastEdit, debounced,
                   startKept, engineVars>>

\* requestAuthorization returns to onStartSchedule (lines 383-391, 649-656)
RequestAuthorizationReturns(call, granted) ==
    LET id == call.schedule.id
        cleared == clearRescheduleTimer(Timers, id)
    IN  /\ call \in inFlight
        /\ call.at = "requestAuthorization"
        /\ authorizationStatus' = IF granted THEN "authorized" ELSE "denied"
        /\ IF granted
           THEN /\ Keep(cleared)
                /\ inFlight' = suspended(call, "cancelScheduleNotifications")
                /\ afterClear' = timeoutsOf(cleared.live, id)
                /\ burst' = [burst EXCEPT ![id] = 0]
                /\ UNCHANGED startKept
           ELSE /\ Commit(setScheduleActive(schedules, id, FALSE), Timers, "denied")
                /\ inFlight' = inFlight \ {call}
                /\ startKept' = (startKept \/ (call.pending # 0 /\ pendingHandle(id) = call.pending))
                /\ UNCHANGED <<afterClear, burst>>
        /\ UNCHANGED <<quietHours, registered, stoppedIds, lastEdit, debounced, presses, engineVars>>

\* cancelScheduleNotifications returns to scheduleIfEligible, called by
\* rescheduleSchedule (lines 553-555, 601-602), or throws (lines 623-628)
RescheduleCancelReturns(call, ok) ==
    /\ call \in inFlight
    /\ call.op = "rescheduleSchedule"
    /\ call.at = "cancelScheduleNotifications"
    /\ registered' = IF ok THEN cancelScheduleNotifications(registered, call.schedule.id)
                     ELSE registered
    /\ inFlight' = IF ok THEN suspended(call, "scheduleBatch") ELSE inFlight \ {call}
    /\ UNCHANGED <<schedules, quietHours, authorizationStatus, previousSchedulesRef,
                   rescheduleTimers, timeouts, stoppedIds, lastEdit, burst,
                   debounced, afterClear, startKept, presses, engineVars>>

\* scheduleBatch returns to rescheduleSchedule with a count above 0, or with
\* an error or count 0 (lines 602-622); preserveActive is true at every call
RescheduleBatchReturns(call, some) ==
    /\ call \in inFlight
    /\ call.op = "rescheduleSchedule"
    /\ call.at = "scheduleBatch"
    /\ registered' = IF some THEN scheduleBatch(registered, call.schedule) ELSE registered
    /\ inFlight' = inFlight \ {call}
    /\ UNCHANGED <<schedules, quietHours, authorizationStatus, previousSchedulesRef,
                   rescheduleTimers, timeouts, stoppedIds, lastEdit, burst,
                   debounced, afterClear, startKept, presses, engineVars>>

\* cancelScheduleNotifications returns to onStartSchedule, or throws
\* (lines 553-555, 657, 673-676)
StartCancelReturns(call, ok) ==
    /\ call \in inFlight
    /\ call.op = "onStartSchedule"
    /\ call.at = "cancelScheduleNotifications"
    /\ IF ok
       THEN /\ registered' = cancelScheduleNotifications(registered, call.schedule.id)
            /\ inFlight' = suspended(call, "scheduleBatch")
            /\ Keep(Timers)
       ELSE /\ registered' = registered
            /\ inFlight' = inFlight \ {call}
            /\ Commit(setScheduleActive(schedules, call.schedule.id, FALSE), Timers,
                      authorizationStatus)
    /\ UNCHANGED <<quietHours, authorizationStatus, stoppedIds, lastEdit, burst, debounced,
                   afterClear, startKept, presses, engineVars>>

\* scheduleBatch returns to onStartSchedule (lines 657-672)
StartBatchReturns(call, some) ==
    /\ call \in inFlight
    /\ call.op = "onStartSchedule"
    /\ call.at = "scheduleBatch"
    /\ inFlight' = inFlight \ {call}
    /\ IF some
       THEN /\ registered' = scheduleBatch(registered, call.schedule)
            /\ Keep(Timers)
       ELSE /\ registered' = registered
            /\ Commit(setScheduleActive(schedules, call.schedule.id, FALSE), Timers,
                      authorizationStatus)
    /\ UNCHANGED <<quietHours, authorizationStatus, stoppedIds, lastEdit, burst, debounced,
                   afterClear, startKept, presses, engineVars>>

\* onStopSchedule(id) up to its await (lines 679-682); the toggle offers it
\* for an active schedule
OnStopSchedule(id) ==
    /\ id \in DOMAIN schedules
    /\ schedules[id].isActive
    /\ presses < MaxPresses
    /\ presses' = presses + 1
    /\ LET call == [op |-> "onStopSchedule", schedule |-> schedules[id],
                    at |-> "cancelScheduleNotifications", pending |-> 0]
           cleared == clearRescheduleTimer(Timers, id)
       IN  /\ Cardinality(inFlight \cup {call}) <= MaxInFlight
           /\ inFlight' = inFlight \cup {call}
           /\ Keep(cleared)
           /\ afterClear' = timeoutsOf(cleared.live, id)
    /\ burst' = [burst EXCEPT ![id] = 0]
    /\ UNCHANGED <<quietHours, authorizationStatus, registered, stoppedIds, lastEdit,
                   debounced, startKept, engineVars>>

\* cancelScheduleNotifications returns to onStopSchedule, or throws (lines 682-687)
StopCancelReturns(call, ok) ==
    /\ call \in inFlight
    /\ call.op = "onStopSchedule"
    /\ inFlight' = inFlight \ {call}
    /\ IF ok
       THEN /\ registered' = cancelScheduleNotifications(registered, call.schedule.id)
            /\ Commit(setScheduleActive(schedules, call.schedule.id, FALSE), Timers,
                      authorizationStatus)
            /\ stoppedIds' = stoppedIds \cup {call.schedule.id}
       ELSE /\ Keep(Timers)
            /\ UNCHANGED <<registered, stoppedIds>>
    /\ UNCHANGED <<quietHours, authorizationStatus, lastEdit, burst, debounced, afterClear,
                   startKept, presses, engineVars>>

\* removeSchedule(id) up to its await (lines 849-852)
RemoveSchedule(id) ==
    /\ id \in DOMAIN schedules
    /\ presses < MaxPresses
    /\ presses' = presses + 1
    /\ LET call == [op |-> "removeSchedule", schedule |-> schedules[id],
                    at |-> "cancelScheduleNotifications", pending |-> 0]
           cleared == clearRescheduleTimer(Timers, id)
       IN  /\ Cardinality(inFlight \cup {call}) <= MaxInFlight
           /\ inFlight' = inFlight \cup {call}
           /\ Keep(cleared)
           /\ afterClear' = timeoutsOf(cleared.live, id)
    /\ burst' = [burst EXCEPT ![id] = 0]
    /\ UNCHANGED <<quietHours, authorizationStatus, registered, stoppedIds, lastEdit,
                   debounced, startKept, engineVars>>

\* cancelScheduleNotifications returns to removeSchedule, or throws and is
\* ignored (lines 851-861)
RemoveCancelReturns(call, ok) ==
    /\ call \in inFlight
    /\ call.op = "removeSchedule"
    /\ inFlight' = inFlight \ {call}
    /\ registered' = IF ok THEN cancelScheduleNotifications(registered, call.schedule.id)
                     ELSE registered
    /\ Commit(withoutSchedule(schedules, call.schedule.id), Timers, authorizationStatus)
    /\ UNCHANGED <<quietHours, authorizationStatus, stoppedIds, lastEdit, burst, debounced,
                   afterClear, startKept, presses, engineVars>>

AppNext ==
    \/ \E id \in AppIds, patch \in Patches : UpdateSchedule(id, patch)
    \/ UpdateQuietHours
    \/ \E x \in timeouts : TimerFires(x)
    \/ \E id \in AppIds : OnStartSchedule(id)
    \/ \E call \in inFlight, granted \in BOOLEAN : RequestAuthorizationReturns(call, granted)
    \/ \E call \in inFlight, ok \in BOOLEAN : RescheduleCancelReturns(call, ok)
    \/ \E call \in inFlight, some \in BOOLEAN : RescheduleBatchReturns(call, some)
    \/ \E call \in inFlight, ok \in BOOLEAN : StartCancelReturns(call, ok)
    \/ \E call \in inFlight, some \in BOOLEAN : StartBatchReturns(call, some)
    \/ \E id \in AppIds : OnStopSchedule(id)
    \/ \E call \in inFlight, ok \in BOOLEAN : StopCancelReturns(call, ok)
    \/ \E id \in AppIds : RemoveSchedule(id)
    \/ \E call \in inFlight, ok \in BOOLEAN : RemoveCancelReturns(call, ok)

AppSpec == AppInit /\ [][AppNext]_vars

----------------------------------------------------------------------------
(* The calls *)

Init ==
    /\ input \in Inputs
    /\ pc = "ready"
    /\ dates = <<>>
    /\ queue = <<>>
    /\ again = <<>>
    /\ DEFAULT_DAYS = AllDays
    /\ calls = 0
    /\ swept = <<>>
    /\ Unmounted

\* the first call of buildNotificationQueue(input)
BuildNotificationQueue ==
    /\ pc = "ready"
    /\ dates' = allDates(input)
    /\ queue' = buildNotificationQueue(input)
    /\ swept' = allSweeps(input)
    /\ DEFAULT_DAYS' = sharedDaysAfter(input)
    /\ calls' = calls + 1
    /\ pc' = "returned"
    /\ UNCHANGED <<input, again, appVars>>

\* a second call with the same input
BuildNotificationQueueAgain ==
    /\ pc = "returned"
    /\ again' = buildNotificationQueue(input)
    /\ DEFAULT_DAYS' = sharedDaysAfter(input)
    /\ pc' = "repeated"
    /\ UNCHANGED <<input, dates, queue, calls, swept, appVars>>

\* another call, made between the two; its result is dropped
InterveningCall ==
    /\ pc = "returned"
    /\ calls < MaxCalls
    /\ \E other \in OtherInputs :
           DEFAULT_DAYS' = sharedDaysAfter(other)
    /\ calls' = calls + 1
    /\ UNCHANGED <<input, pc, dates, queue, again, swept, appVars>>

Next == BuildNotificationQueue \/ InterveningCall \/ BuildNotificationQueueAgain

Spec == Init /\ [][Next]_vars

\* the same calls, made with the inputs that follow one rule through its
\* normalization
RuleInit ==
    /\ input \in RuleInputs
    /\ pc = "ready"
    /\ dates = <<>>
    /\ queue = <<>>
    /\ again = <<>>
    /\ DEFAULT_DAYS = AllDays
    /\ calls = 0
    /\ swept = <<>>
    /\ Unmounted

RuleSpec == RuleInit /\ [][Next]_vars

----------------------------------------------------------------------------
(* Names used by the properties *)

Returned == pc \in {"returned", "repeated"}
Now == input.now
Horizon == horizonOf(input.now, horizonHoursOf(input))
MaxCount == maxCountOf(input)
Rules == DOMAIN input.schedules
Rule(i) == input.schedules[i]
Generated(i) == {dates[i][k] : k \in DOMAIN dates[i]}

\* the ScheduleInput of schedule i in this call
FireInput(i) == fireInputOf(Rule(i), Now, MaxCount, horizonHoursOf(input))

\* schedule i is a withinDay rule whose window-aligned search found nothing,
\* so that its dates are those of the fallback sweep
UsedFallback(i) ==
    /\ Rule(i).type = "withinDay"
    /\ someDayActive(normalizeDaysOfWeek(FireInput(i)))
    /\ windowSearch(FireInput(i)) = <<>>

\* The while loops that the branch of schedule i runs when the count passed
\* down is maxCount each end by their own condition within the 2^LoopDepth
\* rounds that are followed.
LoopsEnd(i, maxCount) ==
    LET r == Rule(i)
        hh == horizonHoursOf(input)
    IN  IF r.type = "withinDay" THEN
            LET c == fireContext(fireInputOf(r, Now, maxCount, hh))
                end == fireLoop([results |-> <<>>, cursor |-> Now, stopped |-> FALSE],
                                c, LoopDepth)
                fc == [allDay |-> c.allDay, spansMidnight |-> c.spansMidnight,
                       startMinutes |-> c.startMinutes, endMinutes |-> c.endMinutes,
                       daysOfWeek |-> c.activeDays, intervalMinutes |-> c.interval,
                       maxCount |-> c.maxCount, horizon |-> c.horizon]
                fend == fallbackLoop([results |-> <<>>,
                                      cursor |-> fallbackStart(Now, c.interval)],
                                     fc, LoopDepth)
            IN  someDayActive(c.activeDays) =>
                    /\ ~fireContinues(end, c)
                    /\ Len(end.results) = 0 => ~fallbackContinues(fend, fc)
        ELSE IF r.type \in {"daily", "weekly"} THEN
            LET c == [maxCount |-> maxCount, now |-> Now, horizon |-> Horizon,
                      activeDays |-> normalizeDaysOfWeek(r),
                      timeMinutes |-> r.startMinutesFromMidnight]
            IN  someDayActive(c.activeDays) =>
                    ~fixedTimeContinues(
                        fixedTimeLoop([results |-> <<>>, cursor |-> startOfDay(Now)],
                                      c, LoopDepth), c)
        ELSE IF r.type = "monthly" THEN
            LET c == [maxCount |-> maxCount, now |-> Now, horizon |-> Horizon,
                      dayOfMonth |-> normalizeDayOfMonth(r),
                      timeMinutes |-> r.startMinutesFromMidnight]
            IN  ~monthlyContinues(
                    monthlyLoop([results |-> <<>>,
                                 cursor |-> NewDate(getFullYear(Now), getMonth(Now), 1)],
                                c, LoopDepth), c)
        ELSE TRUE

\* Every while loop of the call ran until its own condition ended it.
LoopsRanToTheEnd == \A i \in Rules : LoopsEnd(i, MaxCount)

----------------------------------------------------------------------------
(* Properties *)

\* C1: every instant generated for a rule of any kind, by the window-aligned
\* search or by the fallback sweep, lies strictly after now and at or before
\* now + horizonHours hours.
C1_InstantsWithinBounds ==
    Returned => \A i \in Rules : \A t \in Generated(i) : Now < t /\ t <= Horizon

\* a fallback sweep has produced instants
C1_Witness ==
    /\ pc = "returned"
    /\ \E i \in Rules : UsedFallback(i) /\ dates[i] # <<>>

\* C2: the instants generated for one rule are strictly increasing (so no
\* instant occurs twice) and there are at most maxCount of them.
C2_StrictlyIncreasingAndCapped ==
    Returned =>
        \A i \in Rules :
            /\ Len(dates[i]) <= Max(MaxCount, 0)
            /\ \A k \in 1..(Len(dates[i]) - 1) : dates[i][k] < dates[i][k + 1]

\* a rule whose generation was cut at maxCount, with several instants
C2_Witness ==
    /\ pc = "returned"
    /\ \E i \in Rules : Len(dates[i]) = MaxCount /\ MaxCount >= 2

\* C3: the returned queue is non-decreasing by instant.
C3_QueueNonDecreasing ==
    Returned => \A i, j \in DOMAIN queue : i < j => queue[i].date <= queue[j].date

\* a queue in which the instants of two schedules alternate
C3_Witness ==
    /\ pc = "returned"
    /\ \E i \in DOMAIN queue :
           /\ i + 2 \in DOMAIN queue
           /\ queue[i].scheduleId = queue[i + 2].scheduleId
           /\ queue[i].scheduleId # queue[i + 1].scheduleId
           /\ queue[i].date < queue[i + 1].date
           /\ queue[i + 1].date < queue[i + 2].date

\* the position in the input list of the schedule that owns a queue entry
Owner(entry) == CHOOSE i \in Rules : Rule(i).id = entry.scheduleId

\* C4: entries of the returned queue with equal instants stand in the order
\* in which their schedules were supplied, also when the queue was cut.
C4_TiesKeepInputOrder ==
    Returned =>
        \A i, j \in DOMAIN queue :
            i < j /\ queue[i].date = queue[j].date => Owner(queue[i]) < Owner(queue[j])

\* the total number of instants generated over all schedules
RECURSIVE TotalGenerated(_)
TotalGenerated(n) == IF n = 0 THEN 0 ELSE TotalGenerated(n - 1) + Len(dates[n])

\* a cut queue that holds two entries with the same instant
C4_Witness ==
    /\ pc = "returned"
    /\ Len(queue) < TotalGenerated(Len(dates))
    /\ \E i, j \in DOMAIN queue : i < j /\ queue[i].date = queue[j].date

\* C5: the queue holds min(maxCount, N) entries, N the number of instants
\* generated over all schedules, and each entry carries the id and the
\* message of the schedule that generated its instant.
C5_QueueLengthAndTags ==
    Returned =>
        /\ Len(queue) = Min(Max(MaxCount, 0), TotalGenerated(Len(dates)))
        /\ \A k \in DOMAIN queue :
               \E i \in Rules :
                   /\ queue[k].scheduleId = Rule(i).id
                   /\ queue[k].message = Rule(i).message
                   /\ queue[k].date \in Generated(i)

\* a queue cut at maxCount that holds entries of two schedules
C5_Witness ==
    /\ pc = "returned"
    /\ Len(queue) = MaxCount
    /\ TotalGenerated(Len(dates)) > MaxCount
    /\ \E i, j \in DOMAIN queue : queue[i].scheduleId # queue[j].scheduleId

C7_Scenario(i, mask) ==
    /\ Rule(i).type = "withinDay"
    /\ Rule(i).intervalMinutes = 60
    /\ Rule(i).startMinutesFromMidnight = 21 * 60
    /\ Rule(i).endMinutesFromMidnight = 6 * 60
    /\ "daysOfWeek" \in DOMAIN Rule(i)
    /\ Rule(i).daysOfWeek = mask
    /\ Now = Monday + 20 * Hour
    /\ horizonHoursOf(input) = 24
    /\ MaxCount >= 9

C7_HourlyFrom21(n) == [k \in 1..n |-> Monday + (20 + k) * Hour]

C7_MidnightSpanningWindow ==
    Returned =>
        \A i \in Rules :
            /\ C7_Scenario(i, MondayOnly) => dates[i] = C7_HourlyFrom21(3)
            /\ C7_Scenario(i, AllDays) => dates[i] = C7_HourlyFrom21(9)

\* the scenario with all days active has returned its nine instants
C7_Witness ==
    /\ pc = "returned"
    /\ \E i \in Rules : C7_Scenario(i, AllDays) /\ Len(dates[i]) = 9

\* the weekday mask that applies to schedule i, and the mask index (1 = Monday
\* ... 7 = Sunday) of the calendar date of an instant
MaskOf(i) ==
    IF "daysOfWeek" \in DOMAIN Rule(i) /\ Len(Rule(i).daysOfWeek) = 7
    THEN Rule(i).daysOfWeek
    ELSE AllDays
WeekdayIndex(t) == ((DayNumber(t) + Epoch.weekday - 1) % 7) + 1

\* C8: every instant of a withinDay, daily or weekly rule falls on a weekday
\* that is active in the rule's mask, the weekday being that of the instant's
\* own calendar date.
C8_InstantsOnActiveWeekdays ==
    Returned =>
        \A i \in Rules :
            Rule(i).type \in {"withinDay", "daily", "weekly"} =>
                \A t \in Generated(i) : MaskOf(i)[WeekdayIndex(t)]

\* an instant in the post-midnight tail of a spanning window that opened on
\* an inactive day
C8_Witness ==
    /\ pc = "returned"
    /\ \E i \in Rules :
           /\ Rule(i).type = "withinDay"
           /\ Rule(i).endMinutesFromMidnight \in 1..(Rule(i).startMinutesFromMidnight - 1)
           /\ Rule(i).startMinutesFromMidnight < MinutesPerDay
           /\ \E t \in Generated(i) :
                  /\ minutesSinceMidnight(t) < Rule(i).endMinutesFromMidnight
                  /\ ~MaskOf(i)[WeekdayIndex(t - Day)]

\* schedule i is an all-day withinDay rule with every day active
C9_AllDayEveryDay(i) ==
    /\ Rule(i).type = "withinDay"
    /\ normalizeMinutes(Rule(i).startMinutesFromMidnight)
         = normalizeMinutes(Rule(i).endMinutesFromMidnight)
    /\ \A d \in 1..7 : MaskOf(i)[d]

\* the earliest instant after now of the form midnight(now's day) + k * interval
C9_NextGridPoint(i) ==
    LET step == clamp(Rule(i).intervalMinutes, MIN_INTERVAL, MAX_INTERVAL) * Minute
        midnight == Now - (Now % Day)
    IN  midnight + (((Now - midnight) \div step) + 1) * step

\* C9: for an all-day rule with all days active and now on a whole minute,
\* the first instant is the earliest grid point after now, the grid being
\* anchored at midnight of now's day; it is emitted when it is within the
\* horizon.
C9_FirstAllDayInstant ==
    Returned /\ Now % Minute = 0 =>
        \A i \in Rules :
            C9_AllDayEveryDay(i) =>
                /\ dates[i] # <<>> => dates[i][1] = C9_NextGridPoint(i)
                /\ C9_NextGridPoint(i) <= Horizon /\ MaxCount >= 1 => dates[i] # <<>>

\* now lies exactly on a grid point and the next grid point was emitted
C9_Witness ==
    /\ pc = "returned"
    /\ Now = Monday + 9 * Hour
    /\ \E i \in Rules :
           /\ C9_AllDayEveryDay(i)
           /\ Rule(i).intervalMinutes = 60
           /\ dates[i] # <<>>
           /\ dates[i][1] = Monday + 10 * Hour

\* schedule i is a monthly rule with a day of month and a time of day in range
C10_Monthly(i) ==
    /\ Rule(i).type = "monthly"
    /\ "dayOfMonth" \in DOMAIN Rule(i)
    /\ Rule(i).dayOfMonth \in 1..31
    /\ Rule(i).startMinutesFromMidnight \in 0..(MinutesPerDay - 1)

\* C10: every instant of a monthly rule lies on day min(dayOfMonth, length of
\* the month) of its month at the rule's time, one instant per month; with
\* dayOfMonth 31 at 09:00 and now on 15 February 2018 the first instant is
\* 28 February 09:00 when the horizon reaches it.
C10_MonthlyClamp ==
    Returned =>
        \A i \in Rules :
            C10_Monthly(i) =>
                /\ \A t \in Generated(i) :
                       /\ getDate(t) = Min(Rule(i).dayOfMonth,
                                           MonthLength(getFullYear(t), getMonth(t)))
                       /\ t % Day = Rule(i).startMinutesFromMidnight * Minute
                /\ \A t, u \in Generated(i) :
                       getFullYear(t) = getFullYear(u) /\ getMonth(t) = getMonth(u) => t = u
                /\ ( /\ Rule(i).dayOfMonth = 31
                     /\ Rule(i).startMinutesFromMidnight = 9 * 60
                     /\ Now - (Now % Day) = At(2018, 1, 15, 0, 0)
                     /\ Horizon >= At(2018, 1, 28, 9 * 60, 0)
                     /\ MaxCount >= 1 )
                   => dates[i] # <<>> /\ dates[i][1] = At(2018, 1, 28, 9 * 60, 0)

\* dayOfMonth 31 was clamped to 28 February
C10_Witness ==
    /\ pc = "returned"
    /\ \E i \in Rules :
           /\ C10_Monthly(i)
           /\ Rule(i).dayOfMonth = 31
           /\ dates[i] # <<>>
           /\ dates[i][1] = At(2018, 1, 28, 9 * 60, 0)

\* schedule i carries a 7-element weekday mask without an active day
C11_EmptyMask(i) ==
    /\ Rule(i).type \in {"withinDay", "daily", "weekly"}
    /\ "daysOfWeek" \in DOMAIN Rule(i)
    /\ Len(Rule(i).daysOfWeek) = 7
    /\ \A d \in 1..7 : ~Rule(i).daysOfWeek[d]

\* C11: a withinDay, daily or weekly rule whose 7-element weekday mask is all
\* false yields no instant, whatever now, maxCount and the horizon are, and
\* the call does not run the fallback sweep for it.
C11_EmptyMaskShortCircuit ==
    Returned =>
        \A i \in Rules : C11_EmptyMask(i) => dates[i] = <<>> /\ ~swept[i]

\* a withinDay rule without an active day has returned, with a horizon of a
\* week and a window that is open at now
C11_Witness ==
    /\ pc = "returned"
    /\ horizonHoursOf(input) = 168
    /\ \E i \in Rules :
           /\ C11_EmptyMask(i)
           /\ Rule(i).type = "withinDay"
           /\ Rule(i).startMinutesFromMidnight = 540
           /\ Now = Monday + 540 * Minute

\* the interval, in seconds, and the window of withinDay schedule i as the
\* generator uses them, and the time of day of an instant in minutes
Step(i) == clamp(Rule(i).intervalMinutes, MIN_INTERVAL, MAX_INTERVAL) * Minute
WindowStart(i) == normalizeMinutes(Rule(i).startMinutesFromMidnight)
WindowEnd(i) == normalizeMinutes(Rule(i).endMinutesFromMidnight)
TimeOfDay(t) == (t % Day) \div Minute

\* t lies in the nominal window of schedule i by its time of day
InNominalWindow(i, t) ==
    IF WindowStart(i) = WindowEnd(i) THEN TRUE
    ELSE IF WindowStart(i) < WindowEnd(i)
    THEN WindowStart(i) <= TimeOfDay(t) /\ TimeOfDay(t) < WindowEnd(i)
    ELSE TimeOfDay(t) >= WindowStart(i) \/ TimeOfDay(t) < WindowEnd(i)

\* c = now + interval truncated to the whole minute, and the instants
\* c + k * interval up to the horizon that the sweep keeps
C12_SweepStart(i) == (Now + Step(i)) - ((Now + Step(i)) % Minute)
C12_Sweep(i) ==
    {t \in {C12_SweepStart(i) + k * Step(i) :
                k \in 0..((Horizon - C12_SweepStart(i)) \div Step(i))} :
        t <= Horizon /\ InNominalWindow(i, t) /\ MaskOf(i)[WeekdayIndex(t)]}

\* C12: when the window-aligned search of a withinDay rule with an active
\* weekday finds nothing, the result is the fallback sweep: the instants
\* c + k * interval, c = now + interval truncated to the minute, that are at
\* or before the horizon, inside the nominal window and on an active weekday,
\* in increasing order and cut at maxCount; window 02:00-03:00, now 04:00 and
\* a horizon of 1 h give the empty result.
C12_FallbackIsTheSweep ==
    Returned =>
        \A i \in Rules :
            /\ swept[i] =>
                 /\ Generated(i) \subseteq C12_Sweep(i)
                 /\ Len(dates[i]) = Min(Max(MaxCount, 0), Cardinality(C12_Sweep(i)))
                 /\ \A k \in 1..(Len(dates[i]) - 1) : dates[i][k] < dates[i][k + 1]
                 /\ \A t \in C12_Sweep(i) :
                        \A u \in Generated(i) : t < u => t \in Generated(i)
            /\ ( /\ Rule(i).type = "withinDay"
                 /\ MaskOf(i) = AllDays
                 /\ Rule(i).startMinutesFromMidnight = 2 * 60
                 /\ Rule(i).endMinutesFromMidnight = 3 * 60
                 /\ Now % Day = 4 * Hour
                 /\ horizonHoursOf(input) = 1 )
               => swept[i] /\ dates[i] = <<>>

\* a sweep from a now with seconds has returned an instant
C12_Witness ==
    /\ pc = "returned"
    /\ Now % Minute # 0
    /\ \E i \in Rules : swept[i] /\ dates[i] # <<>> /\ dates[i][1] = C12_SweepStart(i) + Step(i)

\* C13: a withinDay rule with an active weekday and an interval in [5,180]
\* yields at least one instant, for any window and any now, when maxCount is
\* at least 1 and the horizon is at least 168 hours.
C13_NonEmptyWithinAWeek ==
    Returned =>
        \A i \in Rules :
            ( /\ Rule(i).type = "withinDay"
              /\ \E d \in 1..7 : MaskOf(i)[d]
              /\ Rule(i).intervalMinutes \in MIN_INTERVAL..MAX_INTERVAL
              /\ MaxCount >= 1
              /\ horizonHoursOf(input) >= 7 * 24 )
            => dates[i] # <<>>

\* the only instant within the week is the opening of next week's window,
\* which lies exactly on the horizon
C13_Witness ==
    /\ pc = "returned"
    /\ horizonHoursOf(input) = 7 * 24
    /\ \E i \in Rules :
           /\ Rule(i).type = "withinDay"
           /\ MaskOf(i) = MondayOnly
           /\ Now = Monday + WindowStart(i) * Minute
           /\ ~swept[i]
           /\ dates[i] = <<Horizon>>

\* A count that no rule reaches within the horizon: the instants of a rule
\* are whole minutes apart and lie in (now, horizon].
C14_NoCap == Max(horizonHoursOf(input), 0) * 60 + 1

\* each rule's complete set of instants within the horizon, in input order
C14_Complete ==
    SubSeq([i \in 1..Len(input.schedules) |->
               datesOf(Rule(i), Now, C14_NoCap, horizonHoursOf(input))],
           1, Len(input.schedules))

\* the loops that compute the complete sets ran to their end
C14_CompleteLoopsRanToTheEnd == \A i \in Rules : LoopsEnd(i, C14_NoCap)

\* the number of instants of rules 1..n of `complete` that the stable
\* time-ordered merge puts before instant k of rule i
RECURSIVE C14_Before(_, _, _, _)
C14_Before(complete, n, i, k) ==
    IF n = 0 THEN 0
    ELSE C14_Before(complete, n - 1, i, k)
         + Cardinality({l \in DOMAIN complete[n] :
               \/ complete[n][l] < complete[i][k]
               \/ complete[n][l] = complete[i][k] /\ (n < i \/ (n = i /\ l < k))})

RECURSIVE C14_Total(_, _)
C14_Total(complete, n) ==
    IF n = 0 THEN 0 ELSE C14_Total(complete, n - 1) + Len(complete[n])

\* C14: the returned queue is the first maxCount entries of the stable
\* time-ordered merge of every rule's complete, uncapped list of instants
\* within the horizon: entry p of the queue is the instant that the merge puts
\* at position p, with its rule's id and message.
C14_QueueIsPrefixOfCompleteMerge ==
    Returned =>
        LET complete == C14_Complete
            n == Len(complete)
        IN  /\ Len(queue) = Min(Max(MaxCount, 0), C14_Total(complete, n))
            /\ \A p \in DOMAIN queue :
                   \E i \in 1..n :
                       /\ queue[p].scheduleId = Rule(i).id
                       /\ queue[p].message = Rule(i).message
                       /\ \E k \in DOMAIN complete[i] :
                              /\ complete[i][k] = queue[p].date
                              /\ C14_Before(complete, n, i, k) = p - 1

\* a queue of two rules, each of which has more instants within the horizon
\* than maxCount
C14_Witness ==
    /\ pc = "returned"
    /\ Len(queue) = MaxCount
    /\ \E p, q \in DOMAIN queue : queue[p].scheduleId # queue[q].scheduleId
    /\ \A i \in Rules : Len(C14_Complete[i]) > MaxCount

\* schedule i has every field out of range: the interval, the window and the
\* length of the weekday mask
C15_OutOfRange(i) ==
    /\ Rule(i).intervalMinutes \notin MIN_INTERVAL..MAX_INTERVAL
    /\ Rule(i).startMinutesFromMidnight \notin 0..(MinutesPerDay - 1)
    /\ Rule(i).endMinutesFromMidnight \notin 0..(MinutesPerDay - 1)
    /\ "daysOfWeek" \in DOMAIN Rule(i)
    /\ Len(Rule(i).daysOfWeek) # 7

\* C15: every call of buildNotificationQueue terminates and returns a list,
\* whatever the field values: each while loop the call runs is ended by its
\* own condition, and what is returned is a list of at most max(maxCount, 0)
\* entries, each with the id and message of a rule of the input and a Date.
C15_CallTerminates ==
    /\ LoopsRanToTheEnd
    /\ Returned =>
          /\ DOMAIN dates = Rules
          /\ DOMAIN queue = 1..Len(queue)
          /\ Len(queue) <= Max(MaxCount, 0)
          /\ \A p \in DOMAIN queue :
                 /\ DOMAIN queue[p] = {"scheduleId", "date", "message"}
                 /\ queue[p].date \in Int
                 /\ \E i \in Rules : queue[p].scheduleId = Rule(i).id

\* a call with out-of-range fields has returned instants
C15_Witness ==
    /\ pc = "returned"
    /\ queue # <<>>
    /\ \E i \in Rules : C15_OutOfRange(i) /\ Rule(i).type = "withinDay"

\* schedule i is an all-day withinDay rule with every day active and an
\* interval in [5,180]
C16_AllDay(i) ==
    /\ C9_AllDayEveryDay(i)
    /\ Rule(i).intervalMinutes \in MIN_INTERVAL..MAX_INTERVAL

C16_Gap(i, k) == dates[i][k + 1] - dates[i][k]

\* C16 as stated: consecutive instants of an all-day rule with all days
\* active are exactly intervalMinutes apart, for every interval in [5,180]
\* and across midnights.
C16_ExactSpacing ==
    Returned =>
        \A i \in Rules :
            C16_AllDay(i) =>
                \A k \in 1..(Len(dates[i]) - 1) :
                    C16_Gap(i, k) = Rule(i).intervalMinutes * Minute

\* C16 amended: consecutive instants are exactly intervalMinutes apart when
\* intervalMinutes divides 1440, and otherwise whenever both lie on the same
\* calendar day and the earlier one is not the first instant of the result;
\* in every case they are at least intervalMinutes and less than twice
\* intervalMinutes apart (the grid starts again at every midnight).
C16_SpacingOnDailyGrid ==
    Returned =>
        \A i \in Rules :
            C16_AllDay(i) =>
                \A k \in 1..(Len(dates[i]) - 1) :
                    /\ C16_Gap(i, k) >= Rule(i).intervalMinutes * Minute
                    /\ C16_Gap(i, k) < 2 * Rule(i).intervalMinutes * Minute
                    /\ MinutesPerDay % Rule(i).intervalMinutes = 0
                         => C16_Gap(i, k) = Rule(i).intervalMinutes * Minute
                    /\ k >= 2 /\ DayNumber(dates[i][k]) = DayNumber(dates[i][k + 1])
                         => C16_Gap(i, k) = Rule(i).intervalMinutes * Minute

\* an interval that does not divide 1440: exact spacing up to midnight, a
\* longer gap across it, exact spacing again on the next day
C16_Witness ==
    /\ pc = "returned"
    /\ \E i \in Rules :
           /\ C16_AllDay(i)
           /\ \E k \in 2..(Len(dates[i]) - 3) :
                  /\ C16_Gap(i, k) = Rule(i).intervalMinutes * Minute
                  /\ C16_Gap(i, k + 1) > Rule(i).intervalMinutes * Minute
                  /\ DayNumber(dates[i][k + 1]) # DayNumber(dates[i][k + 2])
                  /\ C16_Gap(i, k + 2) = Rule(i).intervalMinutes * Minute

\* later reference instants from which the queue is computed again: an hour
\* after now, and ten and a half minutes after now
C17_LaterNows == {Now + 60 * Minute, Now + 10 * Minute + 30}

\* the instants of schedule i computed from the reference instant n2, with the
\* count and the horizon length of the call
C17_RunFrom(i, n2) ==
    LET run == generateFireDates(fireInputOf(Rule(i), n2, MaxCount, horizonHoursOf(input)))
    IN  {run[k] : k \in DOMAIN run}

C17_CountBinds(i, n2) ==
    \/ Len(dates[i]) >= MaxCount
    \/ Cardinality(C17_RunFrom(i, n2)) >= MaxCount

\* C17: for an all-day withinDay rule and reference instants n1 < n2, every
\* instant t with n2 < t <= n1 + horizon is emitted by the run from n1 if and
\* only if it is emitted by the run from n2, when maxCount does not bind.
C17_GridStableUnderNow ==
    Returned =>
        \A i \in Rules :
            Rule(i).type = "withinDay" /\ WindowStart(i) = WindowEnd(i) =>
                \A n2 \in C17_LaterNows :
                    ~C17_CountBinds(i, n2) =>
                        \A t \in Generated(i) \cup C17_RunFrom(i, n2) :
                            n2 < t /\ t <= Horizon =>
                                (t \in Generated(i) <=> t \in C17_RunFrom(i, n2))

\* schedule i is a withinDay rule with a bounded window
BoundedWindow(i) == Rule(i).type = "withinDay" /\ WindowStart(i) # WindowEnd(i)

\* the opening and the end of the occurrence of schedule i's window that
\* contains t: a spanning window that holds t in its tail after midnight
\* opened on the previous calendar day
Opening(i, t) ==
    LET midnight == t - (t % Day)
    IN  IF WindowStart(i) > WindowEnd(i) /\ TimeOfDay(t) < WindowStart(i)
        THEN midnight - Day + WindowStart(i) * Minute
        ELSE midnight + WindowStart(i) * Minute
Closing(i, t) ==
    LET opened == Opening(i, t) - (Opening(i, t) % Day)
    IN  IF WindowStart(i) > WindowEnd(i)
        THEN opened + Day + WindowEnd(i) * Minute
        ELSE opened + WindowEnd(i) * Minute

\* C18: for a withinDay rule with a bounded window and now on a whole minute,
\* when the window-aligned search finds an instant, every emitted instant t
\* is S + k * interval for an integer k >= 0, S the opening of the window
\* occurrence that contains t, and S <= t < the end of that occurrence.
C18_InstantsOnWindowGrid ==
    Returned /\ Now % Minute = 0 =>
        \A i \in Rules :
            BoundedWindow(i) /\ ~swept[i] =>
                \A t \in Generated(i) :
                    /\ Opening(i, t) <= t
                    /\ t < Closing(i, t)
                    /\ (t - Opening(i, t)) % Step(i) = 0

\* now lies in the tail of a spanning window, off the grid of the opening of
\* the evening before, and the first instant is the next point of that grid
C18_Witness ==
    /\ pc = "returned"
    /\ Now % Minute = 0
    /\ \E i \in Rules :
           /\ BoundedWindow(i)
           /\ ~swept[i]
           /\ WindowStart(i) > WindowEnd(i)
           /\ TimeOfDay(Now) < WindowEnd(i)
           /\ (Now - Opening(i, Now)) % Step(i) # 0
           /\ dates[i] # <<>>
           /\ dates[i][1] < Closing(i, Now)
           /\ Opening(i, dates[i][1]) = Opening(i, Now)

\* the length of schedule i's window in seconds, and the grid points
\* S + k * interval of the window occurrences that open between the day before
\* now and the day of the horizon, S being the opening of an occurrence
WindowLength(i) ==
    ((WindowEnd(i) - WindowStart(i) + MinutesPerDay) % MinutesPerDay) * Minute
C19_Openings(i) ==
    {d * Day + WindowStart(i) * Minute : d \in (DayNumber(Now) - 1)..DayNumber(Horizon)}
C19_GridPoints(i) ==
    {S + k * Step(i) :
        S \in C19_Openings(i), k \in 0..((WindowLength(i) - 1) \div Step(i))}

\* C19: for a withinDay rule with a bounded window, every grid point of a
\* window occurrence that lies strictly after now, at or before the horizon
\* and on an active weekday is in the result, unless maxCount earlier instants
\* were emitted.
C19_NoInstantMissed ==
    Returned =>
        \A i \in Rules :
            BoundedWindow(i) =>
                \A t \in C19_GridPoints(i) :
                    Now < t /\ t <= Horizon /\ MaskOf(i)[WeekdayIndex(t)] =>
                        \/ t \in Generated(i)
                        \/ Cardinality({u \in Generated(i) : u < t}) >= MaxCount

\* schedule i is a daily or weekly rule with a time of day in [0,1440)
C20_FixedTime(i) ==
    /\ Rule(i).type \in {"daily", "weekly"}
    /\ Rule(i).startMinutesFromMidnight \in 0..(MinutesPerDay - 1)

\* the fire instants of the calendar days from now's day onward that are
\* strictly after now, at or before the horizon and on an active weekday
C20_Due(i) ==
    {t \in {d * Day + Rule(i).startMinutesFromMidnight * Minute :
                d \in DayNumber(Now)..DayNumber(Horizon)} :
        Now < t /\ t <= Horizon /\ MaskOf(i)[WeekdayIndex(t)]}

\* C20: the result of a daily or weekly rule holds at most one instant per
\* calendar day, each at the rule's time of day, and it holds the instant of
\* every calendar day from now's day onward that is strictly after now, at or
\* before the horizon and on an active weekday (every day without a mask),
\* up to the first maxCount of them.
C20_OneInstantPerActiveDay ==
    Returned =>
        \A i \in Rules :
            C20_FixedTime(i) =>
                /\ Generated(i) \subseteq C20_Due(i)
                /\ \A t \in Generated(i) :
                       t % Day = Rule(i).startMinutesFromMidnight * Minute
                /\ \A t, u \in Generated(i) : DayNumber(t) = DayNumber(u) => t = u
                /\ Len(dates[i]) <= Max(MaxCount, 0)
                /\ \A t \in C20_Due(i) :
                       \/ t \in Generated(i)
                       \/ Cardinality({u \in Generated(i) : u < t}) >= MaxCount

\* a weekly rule has returned instants of days that are not consecutive,
\* after a day on which its time had passed or which is not active
C20_Witness ==
    /\ pc = "returned"
    /\ \E i \in Rules :
           /\ C20_FixedTime(i)
           /\ Rule(i).type = "weekly"
           /\ Len(dates[i]) >= 3
           /\ DayNumber(dates[i][1]) > DayNumber(Now)
           /\ DayNumber(dates[i][3]) > DayNumber(dates[i][2]) + 1

\* schedule i is a withinDay rule whose window starts and ends at the same
\* minute of the day
C21_SameStartAndEnd(i) ==
    /\ Rule(i).type = "withinDay"
    /\ Rule(i).startMinutesFromMidnight = Rule(i).endMinutesFromMidnight

\* schedule i with its window replaced by start = end = 0
C21_FromMidnight(i) ==
    [f \in DOMAIN Rule(i) |->
        IF f \in {"startMinutesFromMidnight", "endMinutesFromMidnight"} THEN 0
        ELSE Rule(i)[f]]

\* C21: a withinDay rule with start = end = S gets the same instants as the
\* same rule with start = end = 0: the common value plays no part.
C21_AllDayIgnoresStart ==
    Returned =>
        \A i \in Rules :
            C21_SameStartAndEnd(i) =>
                dates[i] = datesOf(C21_FromMidnight(i), Now, MaxCount, horizonHoursOf(input))

\* a rule with start = end = 09:00 has returned instants, the first of them
\* before 09:00 of its day
C21_Witness ==
    /\ pc = "returned"
    /\ \E i \in Rules :
           /\ C21_SameStartAndEnd(i)
           /\ Rule(i).startMinutesFromMidnight = 540
           /\ Len(dates[i]) >= 2
           /\ TimeOfDay(dates[i][1]) < 540

\* no instant was generated for two different schedules of the input
C22_NoSharedInstant ==
    \A i, j \in Rules : i # j => Generated(i) \cap Generated(j) = {}

\* the orders in which the n schedules of the input can be supplied
C22_Orders ==
    LET n == Len(input.schedules)
    IN  {p \in [1..n -> 1..n] : \A i, j \in 1..n : i # j => p[i] # p[j]}

\* the input with its schedules (ids and messages kept) supplied in order p
C22_Reordered(p) ==
    [input EXCEPT !.schedules = [k \in 1..Len(input.schedules) |-> input.schedules[p[k]]]]

\* C22: when no two generated entries of different schedules share an
\* instant, supplying the same schedules in any other order gives the same
\* queue, also when the queue is cut to maxCount.
C22_OrderOfRulesIrrelevant ==
    Returned /\ C22_NoSharedInstant =>
        \A p \in C22_Orders : buildNotificationQueue(C22_Reordered(p)) = queue

\* two schedules without a shared instant, the queue cut and starting with
\* an entry of the second schedule and holding one of the first
C22_Witness ==
    /\ pc = "returned"
    /\ Len(input.schedules) >= 2
    /\ C22_NoSharedInstant
    /\ Len(queue) < TotalGenerated(Len(dates))
    /\ Len(queue) >= 2
    /\ Owner(queue[1]) = 2
    /\ \E k \in DOMAIN queue : Owner(queue[k]) = 1

\* schedule i is a daily, weekly or monthly rule
C23_TimedRule(i) == Rule(i).type \in {"daily", "weekly", "monthly"}

\* the in-range times of day that may stand for the start of schedule i: the
\* start itself when it is in [0,1440), any value of the range otherwise
C23_InRangeTimes(i) ==
    IF Rule(i).startMinutesFromMidnight \in 0..(MinutesPerDay - 1)
    THEN {Rule(i).startMinutesFromMidnight}
    ELSE 0..(MinutesPerDay - 1)

\* schedule i with its start replaced by v
C23_StartingAt(i, v) == [Rule(i) EXCEPT !.startMinutesFromMidnight = v]

\* C23: a daily, weekly or monthly rule gets the instants of the same rule
\* with its start replaced by some value of [0,1440) (the start itself when
\* it is in range), so that every instant lies on the day being considered
\* and none is carried onto a neighbouring day.
C23_StartReplacedByInRangeValue ==
    Returned =>
        \A i \in Rules :
            C23_TimedRule(i) =>
                \E v \in C23_InRangeTimes(i) :
                    dates[i] = datesOf(C23_StartingAt(i, v), Now, MaxCount,
                                       horizonHoursOf(input))

\* schedule i is a withinDay rule with its start or its end outside [0,1440)
C24_OutsideTheDay(i) ==
    /\ Rule(i).type = "withinDay"
    /\ \/ Rule(i).startMinutesFromMidnight \notin 0..(MinutesPerDay - 1)
       \/ Rule(i).endMinutesFromMidnight \notin 0..(MinutesPerDay - 1)

\* the dates of schedule i with its start and end replaced by start and end
C24_DatesWith(i, start, end) ==
    datesOf([Rule(i) EXCEPT !.startMinutesFromMidnight = start,
                            !.endMinutesFromMidnight = end],
            Now, MaxCount, horizonHoursOf(input))

C24_Clamped(v) == IF v < 0 THEN 0 ELSE IF v >= MinutesPerDay THEN MinutesPerDay - 1 ELSE v

C24_Wrapped(v) == v % MinutesPerDay

\* the dates of schedule i with a clamped, and with a wrapped, start and end
C24_DatesClamped(i) ==
    C24_DatesWith(i, C24_Clamped(Rule(i).startMinutesFromMidnight),
                  C24_Clamped(Rule(i).endMinutesFromMidnight))

C24_DatesWrapped(i) ==
    C24_DatesWith(i, C24_Wrapped(Rule(i).startMinutesFromMidnight),
                  C24_Wrapped(Rule(i).endMinutesFromMidnight))

\* C24 as stated: a withinDay rule with a start or end outside [0,1440)
\* behaves like the rule with the value clamped: 0 for a value below 0, 1439
\* for a value of 1440 or more.
C24_StartAndEndClamped ==
    Returned =>
        \A i \in Rules : C24_OutsideTheDay(i) => dates[i] = C24_DatesClamped(i)

\* C24, amended: a withinDay rule with a start or end outside [0,1440)
\* behaves like the rule with the value reduced modulo 1440 (-60 like 1380,
\* 1440 like 0, 1500 like 60).
C24_StartAndEndWrapped ==
    Returned =>
        \A i \in Rules : C24_OutsideTheDay(i) => dates[i] = C24_DatesWrapped(i)

\* a rule with start 1500 and end -60 has returned instants, and they are not
\* those of the rule with the clamped window 23:59 - 00:00
C24_Witness ==
    /\ pc = "returned"
    /\ \E i \in Rules :
           /\ C24_OutsideTheDay(i)
           /\ Rule(i).startMinutesFromMidnight = 1500
           /\ Rule(i).endMinutesFromMidnight = 0 - 60
           /\ Len(dates[i]) >= 2
           /\ dates[i] # C24_DatesClamped(i)

\* schedule i is a monthly rule whose dayOfMonth is set to a value outside [1,31]
C25_DayOutOfRange(i) ==
    /\ Rule(i).type = "monthly"
    /\ "dayOfMonth" \in DOMAIN Rule(i)
    /\ Rule(i).dayOfMonth \notin 1..31

\* the dates of schedule i with its dayOfMonth replaced by day
C25_DatesOnDay(i, day) ==
    datesOf([f \in DOMAIN Rule(i) \cup {"dayOfMonth"} |->
                IF f = "dayOfMonth" THEN day ELSE Rule(i)[f]],
            Now, MaxCount, horizonHoursOf(input))

\* C25: a monthly rule with a dayOfMonth below 1 gets the instants of the
\* rule with dayOfMonth 1, and one with a dayOfMonth above 31 those of the
\* rule with dayOfMonth 31, which (for a time of day in range) lie on the
\* last day of their months.
C25_DayClampedTo1And31 ==
    Returned =>
        \A i \in Rules :
            C25_DayOutOfRange(i) =>
                /\ Rule(i).dayOfMonth < 1 => dates[i] = C25_DatesOnDay(i, 1)
                /\ Rule(i).dayOfMonth > 31 =>
                       /\ dates[i] = C25_DatesOnDay(i, 31)
                       /\ Rule(i).startMinutesFromMidnight \in 0..(MinutesPerDay - 1) =>
                              \A t \in Generated(i) :
                                  getDate(t) = MonthLength(getFullYear(t), getMonth(t))

\* a rule with dayOfMonth 40 has returned 28 February, and a rule with
\* dayOfMonth 0 would not have
C25_Witness ==
    /\ pc = "returned"
    /\ \E i \in Rules :
           /\ C25_DayOutOfRange(i)
           /\ Rule(i).dayOfMonth = 40
           /\ dates[i] # <<>>
           /\ dates[i][1] = At(2018, 1, 28, 9 * 60, 0)
           /\ dates[i] # C25_DatesOnDay(i, 0)

\* schedule i is a monthly rule without a dayOfMonth, or with one outside [1,31]
C26_DayMissingOrOutOfRange(i) ==
    /\ Rule(i).type = "monthly"
    /\ "dayOfMonth" \in DOMAIN Rule(i) => Rule(i).dayOfMonth \notin 1..31

\* C26 as stated: a monthly rule whose dayOfMonth is missing or outside
\* [1,31] gets the instants of the rule with dayOfMonth 1.
C26_TreatedAsDay1 ==
    Returned =>
        \A i \in Rules :
            C26_DayMissingOrOutOfRange(i) => dates[i] = C25_DatesOnDay(i, 1)

\* the day that stands for the dayOfMonth of schedule i: day 1 when it is
\* missing or below 1, day 31 when it is above 31
C26_DayStandingIn(i) ==
    IF "dayOfMonth" \in DOMAIN Rule(i) /\ Rule(i).dayOfMonth > 31 THEN 31 ELSE 1

\* C26, amended: a monthly rule whose dayOfMonth is missing or below 1 gets
\* the instants of the rule with dayOfMonth 1; one whose dayOfMonth is above
\* 31 gets those of the rule with dayOfMonth 31, not of day 1.
C26_TreatedAsDay1Or31 ==
    Returned =>
        \A i \in Rules :
            C26_DayMissingOrOutOfRange(i) =>
                /\ dates[i] = C25_DatesOnDay(i, C26_DayStandingIn(i))
                /\ ( /\ "dayOfMonth" \in DOMAIN Rule(i)
                     /\ Rule(i).dayOfMonth > 31
                     /\ Rule(i).startMinutesFromMidnight \in 0..(MinutesPerDay - 1) )
                   => \A t \in Generated(i) : getDate(t) # 1

\* a rule without dayOfMonth has returned the first day of a month
C26_Witness ==
    /\ pc = "returned"
    /\ \E i \in Rules :
           /\ C26_DayMissingOrOutOfRange(i)
           /\ "dayOfMonth" \notin DOMAIN Rule(i)
           /\ dates[i] # <<>>
           /\ getDate(dates[i][1]) = 1
           /\ TimeOfDay(dates[i][1]) = 540

\* schedule i is a withinDay, daily or weekly rule whose daysOfWeek is missing
\* or does not have 7 elements
C27_MalformedMask(i) ==
    /\ Rule(i).type \in {"withinDay", "daily", "weekly"}
    /\ "daysOfWeek" \in DOMAIN Rule(i) => Len(Rule(i).daysOfWeek) # 7

\* schedule i with all seven days active
C27_EveryDay(i) ==
    [f \in DOMAIN Rule(i) \cup {"daysOfWeek"} |->
        IF f = "daysOfWeek" THEN AllDays ELSE Rule(i)[f]]

\* C27: a withinDay, daily or weekly rule whose daysOfWeek is missing or has
\* another length than 7 (empty, or longer and all false) gets the instants of
\* the same rule with all seven days active.
C27_MalformedMaskIsEveryDay ==
    Returned =>
        \A i \in Rules :
            C27_MalformedMask(i) =>
                dates[i] = datesOf(C27_EveryDay(i), Now, MaxCount, horizonHoursOf(input))

\* a rule with an all-false mask of 8 elements has returned instants
C27_Witness ==
    /\ pc = "returned"
    /\ \E i \in Rules :
           /\ C27_MalformedMask(i)
           /\ "daysOfWeek" \in DOMAIN Rule(i)
           /\ Rule(i).daysOfWeek = LongNoDays
           /\ Len(dates[i]) >= 1

\* the weekday masks a monthly rule is given in turn: none, every day, no
\* day, single days, and masks of other lengths
C28_Masks ==
    {Unset, Days(AllDays), Days(NoDays), Days(MondayOnly), Days(Weekend),
     Days(ShortMask), Days(<<>>), Days(LongNoDays)}

\* schedule i with its weekday mask replaced by days (removed when days is Unset)
C28_Masked(i, days) ==
    [f \in DOMAIN Rule(i) \ {"daysOfWeek"} |-> Rule(i)[f]] @@ days

\* C28: a monthly rule gets the same instants whatever its weekday mask is,
\* a mask without an active day included.
C28_MonthlyIgnoresMask ==
    Returned =>
        \A i \in Rules :
            Rule(i).type = "monthly" =>
                \A days \in C28_Masks :
                    dates[i] = datesOf(C28_Masked(i, days), Now, MaxCount,
                                       horizonHoursOf(input))

\* a monthly rule whose mask has no active day has returned instants, one of
\* them on a weekday that another mask leaves out
C28_Witness ==
    /\ pc = "returned"
    /\ \E i \in Rules :
           /\ Rule(i).type = "monthly"
           /\ "daysOfWeek" \in DOMAIN Rule(i)
           /\ Rule(i).daysOfWeek = NoDays
           /\ Len(dates[i]) >= 2
           /\ \E k \in DOMAIN dates[i] : ~Weekend[WeekdayIndex(dates[i][k])]

\* C29: once onStopSchedule(id) has completed, its notifications cancelled
\* and the schedule marked inactive, nothing is registered for the id until
\* the user starts the schedule again, whatever calls were in flight.
C29_NothingRegisteredAfterStop ==
    \A id \in stoppedIds : id \notin DOMAIN registered

\* at most one timeout runs per id, and it is the one that rescheduleTimers holds
C30_OneTimerPerId ==
    /\ \A id \in AppIds :
           /\ timeoutsOf(timeouts, id) <= 1
           /\ id \in DOMAIN rescheduleTimers <=> timeoutsOf(timeouts, id) = 1
    /\ \A x \in timeouts : rescheduleTimers[x.schedule.id] = x.handle

\* a timer is pending for an id exactly while qualifying edits of the id wait
\* for it, and it holds the schedule as the last of them left it
C30_TimerHoldsLastEdit ==
    /\ \A x \in timeouts :
           /\ x.schedule.id \in DOMAIN lastEdit
           /\ x.schedule = lastEdit[x.schedule.id]
    /\ \A id \in AppIds : burst[id] >= 1 <=> id \in DOMAIN rescheduleTimers

\* a timer that fired called rescheduleSchedule with the schedule of the last
\* edit of its burst, and left neither an entry nor another timeout of its id
C30_FiredOnceWithLastEdit ==
    \A id \in DOMAIN debounced :
        /\ debounced[id].lastEdit
        /\ debounced[id].edits >= 1
        /\ debounced[id].left = 0

\* C30 as stated: one timer per id; every qualifying edit of a schedule that
\* was and stays active replaces the pending timer, so that a burst ends in
\* one rescheduleSchedule call with the last edit's schedule; the entry is
\* gone when the timer fires; and onStartSchedule, onStopSchedule and
\* removeSchedule return with no timer of the id left from before the call.
C30_TimersDebouncedAndCleared ==
    /\ C30_OneTimerPerId
    /\ C30_TimerHoldsLastEdit
    /\ C30_FiredOnceWithLastEdit
    /\ afterClear = 0
    /\ ~startKept

\* C30, amended: as stated, except that onStartSchedule clears the pending
\* timer only on the way to scheduling, once authorization is granted.
C30_TimersDebounced ==
    /\ C30_OneTimerPerId
    /\ C30_TimerHoldsLastEdit
    /\ C30_FiredOnceWithLastEdit
    /\ afterClear = 0

\* after a burst of two edits of one schedule its timer has fired: the entry
\* is gone, rescheduleSchedule is in flight with the schedule of the second
\* edit, and the timer of the other schedule is still pending
C30_Witness ==
    \E id \in DOMAIN debounced :
        /\ debounced[id].edits >= 2
        /\ debounced[id].with = lastEdit[id]
        /\ id \notin DOMAIN rescheduleTimers
        /\ \E call \in inFlight :
               call.op = "rescheduleSchedule" /\ call.schedule = debounced[id].with
        /\ \E other \in DOMAIN rescheduleTimers : other # id

====
